---- MODULE Spec2Model ----
(***************************************************************************)
(* Indicator / scoring core of binance-futures-helper.                     *)
(*                                                                         *)
(* The indicator functions are pure.  Each family of functions has its own *)
(* specification: Init draws the arguments of one call from a bounded set, *)
(* and the action applies the function as the code computes it.            *)
(*                                                                         *)
(* Numbers.  JavaScript numbers are modelled as exact fractions n/d in     *)
(* lowest terms with d >= 0.  d = 0 encodes the non-finite values the      *)
(* code can produce by dividing by zero: 1/0 = +Infinity, -1/0 =           *)
(* -Infinity, 0/0 = NaN.  Rounding error of IEEE doubles is not modelled.  *)
(* Kline string fields (high, low, close, volume) are modelled by the      *)
(* number parseFloat yields for them.                                      *)
(***************************************************************************)
EXTENDS Integers, Sequences, FiniteSets, TLC

VARIABLES fn, args, ret

vars == <<fn, args, ret>>

\* No call has been made / no value returned yet.
None == "none"

----------------------------------------------------------------------------
(* Exact arithmetic *)

RECURSIVE GCD(_, _)
GCD(a, b) == IF b = 0 THEN a ELSE GCD(b, a % b)

AbsInt(i) == IF i < 0 THEN -i ELSE i

Sign(i) == IF i > 0 THEN 1 ELSE IF i < 0 THEN -1 ELSE 0

MaxInt(a, b) == IF a >= b THEN a ELSE b

MinInt(a, b) == IF a <= b THEN a ELSE b

\* The fraction n/d in lowest terms, d >= 0; n/0 collapses to +-1/0 or 0/0.
Norm(n, d) ==
  IF d = 0 THEN [n |-> Sign(n), d |-> 0]
  ELSE LET g == GCD(AbsInt(n), AbsInt(d))
           s == IF d < 0 THEN -1 ELSE 1
       IN [n |-> s * (n \div g), d |-> s * (d \div g)]

R(i) == [n |-> i, d |-> 1]

Frac(n, d) == Norm(n, d)

NaN == [n |-> 0, d |-> 0]

Infinity == [n |-> 1, d |-> 0]

NegInfinity == [n |-> -1, d |-> 0]

isNaN(x) == x.d = 0 /\ x.n = 0

isFinite(x) == x.d # 0

Add(a, b) ==
  IF a.d = 0 /\ b.d = 0
  THEN (IF a.n = b.n THEN a ELSE NaN)
  ELSE IF a.d = 0 THEN a
  ELSE IF b.d = 0 THEN b
  ELSE LET g == GCD(a.d, b.d)
       IN Norm(a.n * (b.d \div g) + b.n * (a.d \div g), (a.d \div g) * b.d)

Neg(a) == [n |-> -a.n, d |-> a.d]

Sub(a, b) == Add(a, Neg(b))

Mul(a, b) ==
  IF a.d = 0 \/ b.d = 0 THEN Norm(Sign(a.n) * Sign(b.n), 0)
  ELSE LET g1 == GCD(AbsInt(a.n), b.d)
           g2 == GCD(AbsInt(b.n), a.d)
       IN Norm((a.n \div g1) * (b.n \div g2), (a.d \div g2) * (b.d \div g1))

\* a / b; a finite non-zero a over 0 is +-Infinity, 0/0 is NaN.
Div(a, b) ==
  IF a.d = 0 /\ b.d = 0 THEN NaN
  ELSE Mul(a, [n |-> IF b.n < 0 THEN -b.d ELSE b.d, d |-> AbsInt(b.n)])

\* a < b as JavaScript compares numbers: false whenever an operand is NaN.
Lt(a, b) ==
  /\ ~isNaN(a)
  /\ ~isNaN(b)
  /\ IF a.d = 0 \/ b.d = 0
     THEN (a = NegInfinity /\ b # NegInfinity) \/ (b = Infinity /\ a # Infinity)
     ELSE a.n * b.d < b.n * a.d

Gt(a, b) == Lt(b, a)

Le(a, b) == ~isNaN(a) /\ ~isNaN(b) /\ ~Lt(b, a)

Ge(a, b) == Le(b, a)

\* Math.max / Math.min of two numbers: NaN when an operand is NaN.
MathMax(a, b) == IF isNaN(a) \/ isNaN(b) THEN NaN ELSE IF Lt(a, b) THEN b ELSE a

MathMin(a, b) == IF isNaN(a) \/ isNaN(b) THEN NaN ELSE IF Lt(b, a) THEN b ELSE a

MathAbs(a) == [n |-> AbsInt(a.n), d |-> a.d]

\* Math.floor of a finite fraction, as an integer.
MathFloor(a) == a.n \div a.d

----------------------------------------------------------------------------
(* Array helpers *)

\* Array.prototype.slice(start): a negative start counts from the end, and
\* slice(-0) is slice(0), the whole array.
Slice(s, start) ==
  LET b == IF start < 0 THEN MaxInt(Len(s) + start, 0) ELSE MinInt(start, Len(s))
  IN SubSeq(s, b + 1, Len(s))

\* reduce((a, b) => a + b, 0) over an array of numbers.
RECURSIVE SumR(_)
SumR(s) == IF s = <<>> THEN R(0) ELSE Add(SumR(SubSeq(s, 1, Len(s) - 1)), s[Len(s)])

\* An array built element by element, as a finished array (each element is
\* computed once).
Arr(f) == SubSeq(f, 1, Len(f))

\* All sequences over S of length lo..hi.
SeqsOf(S, lo, hi) == UNION {[1..k -> S] : k \in lo..hi}

----------------------------------------------------------------------------
(* Kline: [openTime (ms), high, low, close, volume] *)

Kline(t, h, l, c, v) == [openTime |-> t, high |-> h, low |-> l, close |-> c, volume |-> v]

----------------------------------------------------------------------------
(* calculateRSI *)

\* A plausible slip: the averages run over every delta instead of the last
\* `period` deltas.
calculateRSI_AllDeltas(prices, period) ==
  IF Len(prices) < period + 1 THEN R(50)
  ELSE
    LET deltas == [i \in 1..(Len(prices) - 1) |-> Sub(prices[i + 1], prices[i])]
        gains == [i \in DOMAIN deltas |-> IF Gt(deltas[i], R(0)) THEN deltas[i] ELSE R(0)]
        losses == [i \in DOMAIN deltas |-> IF Lt(deltas[i], R(0)) THEN Neg(deltas[i]) ELSE R(0)]
        avgGain == Div(SumR(gains), R(period))
        avgLoss == Div(SumR(losses), R(period))
    IN IF avgLoss = R(0) THEN R(100)
       ELSE Sub(R(100), Div(R(100), Add(R(1), Div(avgGain, avgLoss))))

\* A plausible slip: the insufficient-data guard is off by one.
calculateRSI_GuardOffByOne(prices, period) ==
  IF Len(prices) < period THEN R(50)
  ELSE
    LET deltas == [i \in 1..(Len(prices) - 1) |-> Sub(prices[i + 1], prices[i])]
        gains == [i \in DOMAIN deltas |-> IF Gt(deltas[i], R(0)) THEN deltas[i] ELSE R(0)]
        losses == [i \in DOMAIN deltas |-> IF Lt(deltas[i], R(0)) THEN Neg(deltas[i]) ELSE R(0)]
        avgGain == Div(SumR(Slice(gains, -period)), R(period))
        avgLoss == Div(SumR(Slice(losses, -period)), R(period))
    IN IF avgLoss = R(0) THEN R(100)
       ELSE Sub(R(100), Div(R(100), Add(R(1), Div(avgGain, avgLoss))))

calculateRSI(prices, period) ==
  IF Len(prices) < period + 1 THEN R(50)
  ELSE
    LET deltas == [i \in 1..(Len(prices) - 1) |-> Sub(prices[i + 1], prices[i])]
        gains == [i \in DOMAIN deltas |-> IF Gt(deltas[i], R(0)) THEN deltas[i] ELSE R(0)]
        losses == [i \in DOMAIN deltas |-> IF Lt(deltas[i], R(0)) THEN Neg(deltas[i]) ELSE R(0)]
        avgGain == Div(SumR(Slice(gains, -period)), R(period))
        avgLoss == Div(SumR(Slice(losses, -period)), R(period))
    IN IF avgLoss = R(0) THEN R(100)
       ELSE
         LET rs == Div(avgGain, avgLoss)
             rsi == Sub(R(100), Div(R(100), Add(R(1), rs)))
         IN rsi

\* Bounds of the RSI inputs.
MaxPrices == 4
MaxPrice == 3
MaxPeriod == 3

RSIInputs ==
  {[prices |-> p, period |-> k] :
     p \in SeqsOf({R(i) : i \in 0..MaxPrice}, 0, MaxPrices), k \in 1..MaxPeriod}

InitRSI == fn = None /\ args \in RSIInputs /\ ret = None

CallRSI ==
  /\ fn = None
  /\ fn' = "calculateRSI"
  /\ ret' = calculateRSI(args.prices, args.period)
  /\ UNCHANGED args

NextRSI == CallRSI

SpecRSI == InitRSI /\ [][NextRSI]_vars

\* Reference quantities of the RSI claims, taken straight from the price
\* list by index: the sums of the rises and of the falls over the last
\* `period` price steps.
RECURSIVE RiseSum(_, _, _)
RiseSum(p, from, to) ==
  IF from > to THEN R(0)
  ELSE Add(IF Gt(p[to], p[to - 1]) THEN Sub(p[to], p[to - 1]) ELSE R(0),
           RiseSum(p, from, to - 1))

RECURSIVE FallSum(_, _, _)
FallSum(p, from, to) ==
  IF from > to THEN R(0)
  ELSE Add(IF Lt(p[to], p[to - 1]) THEN Sub(p[to - 1], p[to]) ELSE R(0),
           FallSum(p, from, to - 1))

RSIDone == fn = "calculateRSI"

\* C2: for non-negative prices and period >= 1 calculateRSI is in [0,100]:
\* 50 with fewer than period+1 prices, 100 when the falls of the last
\* `period` steps sum to zero, otherwise 100 - 100/(1 + avgGain/avgLoss),
\* i.e. RSI * (G + L) = 100 * G for the sums G, L of the last `period`
\* rises and falls.
C2_RSIContract ==
  RSIDone =>
    LET p == args.prices
        k == args.period
        n == Len(p)
        G == RiseSum(p, n - k + 1, n)
        L == FallSum(p, n - k + 1, n)
    IN /\ Le(R(0), ret) /\ Le(ret, R(100))
       /\ n < k + 1 => ret = R(50)
       /\ (n >= k + 1 /\ L = R(0)) => ret = R(100)
       /\ (n >= k + 1 /\ L # R(0)) => Mul(ret, Add(G, L)) = Mul(R(100), G)

\* C2 witness: a call with enough prices, both rises and falls in the
\* window, and a result strictly inside (0,100).
C2_Witness ==
  /\ RSIDone
  /\ Len(args.prices) > args.period + 1
  /\ Lt(R(0), ret) /\ Lt(ret, R(100))
  /\ ret # R(50)

AllEqual(p) == \A i, j \in DOMAIN p : p[i] = p[j]

\* C3 as stated: a series with zero price change gives 100 for any period.
C3_Original == (RSIDone /\ AllEqual(args.prices)) => ret = R(100)

\* C3 amended: a series with zero price change gives 100 when it holds at
\* least period+1 prices and 50 when it holds fewer; the result is never NaN.
C3_FlatSeries ==
  (RSIDone /\ AllEqual(args.prices)) =>
    /\ ~isNaN(ret)
    /\ Len(args.prices) >= args.period + 1 => ret = R(100)
    /\ Len(args.prices) < args.period + 1 => ret = R(50)

\* C3 witness: a flat series long enough for the avgLoss == 0 branch.
C3_Witness ==
  /\ RSIDone
  /\ AllEqual(args.prices)
  /\ Len(args.prices) >= args.period + 1
  /\ Len(args.prices) >= 3
  /\ ret = R(100)

----------------------------------------------------------------------------
(* calculateATR *)

\* A plausible slip: the true range is taken as high - low only, without the
\* gaps to the previous close.
calculateATR_RangeOnly(klines, period) ==
  IF Len(klines) < period + 1 THEN R(0)
  ELSE
    LET trueRanges == [i \in 1..(Len(klines) - 1) |->
                         Sub(klines[i + 1].high, klines[i + 1].low)]
    IN IF Len(trueRanges) < period
       THEN Div(SumR(trueRanges), R(Len(trueRanges)))
       ELSE Div(SumR(Slice(trueRanges, -period)), R(period))

calculateATR(klines, period) ==
  IF Len(klines) < period + 1 THEN R(0)
  ELSE
    LET trueRanges == [i \in 1..(Len(klines) - 1) |->
                         LET high == klines[i + 1].high
                             low == klines[i + 1].low
                             prevClose == klines[i].close
                             tr1 == Sub(high, low)
                             tr2 == MathAbs(Sub(high, prevClose))
                             tr3 == MathAbs(Sub(low, prevClose))
                         IN MathMax(MathMax(tr1, tr2), tr3)]
    IN IF Len(trueRanges) < period
       THEN Div(SumR(trueRanges), R(Len(trueRanges)))
       ELSE LET recentTRs == Slice(trueRanges, -period)
            IN Div(SumR(recentTRs), R(period))

\* Bounds of the ATR inputs.
MaxAtrLen == 3
MaxAtrPeriod == 3

AtrPrices == {0, 1, 3}

\* Candles with low <= close <= high; openTime and volume are not read.
AtrCandles ==
  {Kline(0, R(h), R(l), R(c), R(0)) :
     <<h, l, c>> \in {x \in AtrPrices \X AtrPrices \X AtrPrices :
                        x[2] <= x[3] /\ x[3] <= x[1]}}

\* The scenario of the specification: 20 bars, close 100, high 105, low 95.
AtrScenario ==
  [klines |-> [i \in 1..20 |-> Kline(0, R(105), R(95), R(100), R(10))], period |-> 14]

ATRInputs ==
  {[klines |-> k, period |-> p] :
     k \in SeqsOf(AtrCandles, 0, MaxAtrLen), p \in 1..MaxAtrPeriod}
  \cup {AtrScenario}

InitATR == fn = None /\ args \in ATRInputs /\ ret = None

CallATR ==
  /\ fn = None
  /\ fn' = "calculateATR"
  /\ ret' = calculateATR(args.klines, args.period)
  /\ UNCHANGED args

NextATR == CallATR

SpecATR == InitATR /\ [][NextATR]_vars

ATRDone == fn = "calculateATR"

\* The true range of candle i (i >= 2) against the close of candle i-1.
TrueRangeAt(k, i) ==
  LET a == Sub(k[i].high, k[i].low)
      b == Sub(k[i].high, k[i - 1].close)
      c == Sub(k[i].low, k[i - 1].close)
      m(x, y) == IF Lt(x, y) THEN y ELSE x
  IN m(m(a, m(b, Neg(b))), m(c, Neg(c)))

RECURSIVE TrueRangeSum(_, _, _)
TrueRangeSum(k, from, to) ==
  IF from > to THEN R(0) ELSE Add(TrueRangeAt(k, to), TrueRangeSum(k, from, to - 1))

IdenticalCandles(k) ==
  \A i, j \in DOMAIN k :
    /\ k[i].high = k[j].high
    /\ k[i].high = k[i].low
    /\ k[i].high = k[i].close

\* C4 as stated: for every candle sequence (with at least one true range)
\* the result is the mean of the most recent true ranges, up to `period` of
\* them.
C4_Original ==
  (ATRDone /\ Len(args.klines) >= 2) =>
    LET n == Len(args.klines)
        m == MinInt(args.period, n - 1)
    IN Mul(ret, R(m)) = TrueRangeSum(args.klines, n - m + 1, n)

\* C4 amended: calculateATR is >= 0; with at least period+1 candles it is
\* the simple mean of the most recent `period` true ranges, with fewer it is
\* 0; identical candles (high = low = close constant) give 0; 20 bars with
\* close 100, high 105, low 95 give ATR(14) = 10.
C4_ATRContract ==
  ATRDone =>
    LET k == args.klines
        p == args.period
        n == Len(k)
    IN /\ Ge(ret, R(0))
       /\ n >= p + 1 => Mul(ret, R(p)) = TrueRangeSum(k, n - p + 1, n)
       /\ n < p + 1 => ret = R(0)
       /\ IdenticalCandles(k) => ret = R(0)
       /\ args = AtrScenario => ret = R(10)

\* C4 witness: enough candles, more true ranges than the window holds, and
\* a positive mean that is not the plain mean of all true ranges.
C4_Witness ==
  /\ ATRDone
  /\ Len(args.klines) > args.period + 1
  /\ Gt(ret, R(0))
  /\ Mul(ret, R(Len(args.klines) - 1)) # TrueRangeSum(args.klines, 2, Len(args.klines))

----------------------------------------------------------------------------
(* calculateMA / calculateMAWithTime *)

\* An absent array element (null) and a present one.
Null == <<>>

Some(v) == <<v>>

calculateMA(prices, period) ==
  IF Len(prices) < period THEN [i \in 1..Len(prices) |-> Null]
  ELSE [i \in 1..Len(prices) |->
          IF i < period THEN Null
          ELSE LET periodPrices == SubSeq(prices, i - period + 1, i)
                   ma == Div(SumR(periodPrices), R(period))
               IN Some(ma)]

\* result.push for every index whose moving average is not null.
RECURSIVE MAEntries(_, _, _)
MAEntries(klines, maValues, i) ==
  IF i = 0 THEN <<>>
  ELSE LET rest == MAEntries(klines, maValues, i - 1)
       IN IF maValues[i] # Null
          THEN Append(rest, [time |-> MathFloor(Div(R(klines[i].openTime), R(1000))),
                             value |-> maValues[i][1]])
          ELSE rest

\* A plausible slip: an entry carries the time of the first candle of its
\* window instead of the last.
RECURSIVE MAEntries_WindowStart(_, _, _, _)
MAEntries_WindowStart(klines, maValues, period, i) ==
  IF i = 0 THEN <<>>
  ELSE LET rest == MAEntries_WindowStart(klines, maValues, period, i - 1)
       IN IF maValues[i] # Null
          THEN Append(rest, [time |-> MathFloor(Div(R(klines[i - period + 1].openTime), R(1000))),
                             value |-> maValues[i][1]])
          ELSE rest

calculateMAWithTime_WindowStart(klines, period) ==
  IF Len(klines) < period THEN <<>>
  ELSE LET closes == [i \in 1..Len(klines) |-> klines[i].close]
       IN MAEntries_WindowStart(klines, calculateMA(closes, period), period, Len(klines))

calculateMAWithTime(klines, period) ==
  IF Len(klines) < period THEN <<>>
  ELSE LET closes == [i \in 1..Len(klines) |-> klines[i].close]
           maValues == calculateMA(closes, period)
       IN MAEntries(klines, maValues, Len(maValues))

\* Bounds of the moving-average inputs.
MaxMaLen == 4
MaxMaPrice == 2
MaxMaPeriod == 3

\* Open time of the first candle and candle spacing, in milliseconds.
MaStarts == {0, 1500}

MaSteps == {700, 1000}

MAInputs ==
  {[klines |-> [i \in 1..Len(c) |-> Kline(t0 + (i - 1) * dt, R(0), R(0), c[i], R(0))],
    period |-> p] :
     c \in SeqsOf({R(i) : i \in 0..MaxMaPrice}, 0, MaxMaLen),
     t0 \in MaStarts, dt \in MaSteps, p \in 1..MaxMaPeriod}

InitMA == fn = None /\ args \in MAInputs /\ ret = None

CallMAWithTime ==
  /\ fn = None
  /\ fn' = "calculateMAWithTime"
  /\ ret' = calculateMAWithTime(args.klines, args.period)
  /\ UNCHANGED args

NextMA == CallMAWithTime

SpecMA == InitMA /\ [][NextMA]_vars

MADone == fn = "calculateMAWithTime"

RECURSIVE CloseSum(_, _, _)
CloseSum(k, from, to) ==
  IF from > to THEN R(0) ELSE Add(k[from].close, CloseSum(k, from + 1, to))

\* C5: for n >= period candles calculateMAWithTime returns n - period + 1
\* entries; entry j (counted from 1) has value = mean of closes j..j+period-1
\* and time = open time, in whole seconds, of candle j+period-1; for
\* n < period the series is empty.
C5_MAWithTime ==
  MADone =>
    LET k == args.klines
        p == args.period
        n == Len(k)
    IN IF n >= p
       THEN /\ Len(ret) = n - p + 1
            /\ \A j \in 1..Len(ret) :
                 /\ Mul(ret[j].value, R(p)) = CloseSum(k, j, j + p - 1)
                 /\ ret[j].time * 1000 <= k[j + p - 1].openTime
                 /\ k[j + p - 1].openTime < (ret[j].time + 1) * 1000
       ELSE ret = <<>>

\* C5 witness: several windows of more than one candle, with open times
\* that are not whole seconds and closes that differ.
C5_Witness ==
  /\ MADone
  /\ args.period >= 2
  /\ Len(ret) >= 2
  /\ ret[1].value # ret[2].value
  /\ \E j \in 1..Len(ret) : ret[j].time * 1000 # args.klines[j + args.period - 1].openTime

----------------------------------------------------------------------------
(* calculateVPVRPOC *)

\* First loop: price range and total volume over the candles whose high,
\* low and volume all parse to a number.
RECURSIVE PriceRange(_, _)
PriceRange(klines, i) ==
  IF i = 0 THEN [minPrice |-> Infinity, maxPrice |-> NegInfinity, totalVolume |-> R(0)]
  ELSE LET acc == PriceRange(klines, i - 1)
           high == klines[i].high
           low == klines[i].low
           volume == klines[i].volume
       IN IF isNaN(high) \/ isNaN(low) \/ isNaN(volume) THEN acc
          ELSE [minPrice |-> MathMin(acc.minPrice, low),
                maxPrice |-> MathMax(acc.maxPrice, high),
                totalVolume |-> Add(acc.totalVolume, volume)]

\* The volume one bin [binLow, binHigh] takes from candles 1..i.
RECURSIVE BinVolume(_, _, _, _)
BinVolume(klines, i, binLow, binHigh) ==
  IF i = 0 THEN R(0)
  ELSE LET binVolume == BinVolume(klines, i - 1, binLow, binHigh)
           high == klines[i].high
           low == klines[i].low
           volume == klines[i].volume
       IN IF isNaN(high) \/ isNaN(low) \/ isNaN(volume) THEN binVolume
          ELSE IF Ge(high, binLow) /\ Le(low, binHigh)
          THEN LET overlapLow == MathMax(low, binLow)
                   overlapHigh == MathMin(high, binHigh)
                   overlapRange == Sub(overlapHigh, overlapLow)
                   candleRange == Sub(high, low)
               IN IF Gt(candleRange, R(0))
                  THEN LET volumeRatio == Div(overlapRange, candleRange)
                       IN Add(binVolume, Mul(volume, volumeRatio))
                  ELSE IF Ge(low, binLow) /\ Le(low, binHigh)
                       THEN Add(binVolume, volume)
                       ELSE binVolume
          ELSE binVolume

\* volumeProfile: bin i (1..bins) spans [min + (i-1)*binSize, min + i*binSize].
VolumeProfile(klines, bins) ==
  LET rng == PriceRange(klines, Len(klines))
      priceRange == Sub(rng.maxPrice, rng.minPrice)
      binSize == Div(priceRange, R(bins))
  IN [i \in 1..bins |->
        LET binLow == Add(rng.minPrice, Mul(R(i - 1), binSize))
            binHigh == Add(rng.minPrice, Mul(R(i), binSize))
            binPrice == Div(Add(binLow, binHigh), R(2))
        IN [price |-> binPrice, volume |-> BinVolume(klines, Len(klines), binLow, binHigh)]]

\* A plausible slip: a later bin of equal volume replaces the point of control.
RECURSIVE FindPOC_LastWins(_, _)
FindPOC_LastWins(volumeProfile, i) ==
  IF i = 0 THEN [maxVolume |-> R(0), poc |-> R(0)]
  ELSE LET acc == FindPOC_LastWins(volumeProfile, i - 1)
       IN IF Ge(volumeProfile[i].volume, acc.maxVolume)
          THEN [maxVolume |-> volumeProfile[i].volume, poc |-> volumeProfile[i].price]
          ELSE acc

\* POC loop: the first bin whose volume exceeds every earlier one.
RECURSIVE FindPOC(_, _)
FindPOC(volumeProfile, i) ==
  IF i = 0 THEN [maxVolume |-> R(0), poc |-> R(0)]
  ELSE LET acc == FindPOC(volumeProfile, i - 1)
       IN IF Gt(volumeProfile[i].volume, acc.maxVolume)
          THEN [maxVolume |-> volumeProfile[i].volume, poc |-> volumeProfile[i].price]
          ELSE acc

\* [...volumeProfile].sort((a, b) => b.volume - a.volume): Array.prototype.sort
\* is stable, so bins of equal volume keep their order.  Insertion of s[i]
\* after every element that is not smaller.
RECURSIVE InsertDesc(_, _)
InsertDesc(sorted, bin) ==
  IF sorted = <<>> THEN <<bin>>
  ELSE IF Ge(sorted[Len(sorted)].volume, bin.volume)
       THEN Append(sorted, bin)
       ELSE Append(InsertDesc(SubSeq(sorted, 1, Len(sorted) - 1), bin), sorted[Len(sorted)])

RECURSIVE SortByVolumeDesc(_, _)
SortByVolumeDesc(volumeProfile, i) ==
  IF i = 0 THEN <<>>
  ELSE InsertDesc(SortByVolumeDesc(volumeProfile, i - 1), volumeProfile[i])

\* A plausible slip: the loop stops only once the target is exceeded.
RECURSIVE ValueAreaPrices_Exceeds(_, _, _, _)
ValueAreaPrices_Exceeds(sortedProfile, targetVolume, i, accumulatedVolume) ==
  IF i > Len(sortedProfile) THEN <<>>
  ELSE LET acc == Add(accumulatedVolume, sortedProfile[i].volume)
       IN IF Gt(acc, targetVolume)
          THEN <<sortedProfile[i].price>>
          ELSE <<sortedProfile[i].price>>
                 \o ValueAreaPrices_Exceeds(sortedProfile, targetVolume, i + 1, acc)

\* Value-area loop: push prices of the sorted bins until the accumulated
\* volume reaches the target.
RECURSIVE ValueAreaPrices(_, _, _, _)
ValueAreaPrices(sortedProfile, targetVolume, i, accumulatedVolume) ==
  IF i > Len(sortedProfile) THEN <<>>
  ELSE LET acc == Add(accumulatedVolume, sortedProfile[i].volume)
       IN IF Ge(acc, targetVolume)
          THEN <<sortedProfile[i].price>>
          ELSE <<sortedProfile[i].price>>
                 \o ValueAreaPrices(sortedProfile, targetVolume, i + 1, acc)

\* Math.max(...xs) and Math.min(...xs).
RECURSIVE MaxOf(_)
MaxOf(xs) ==
  IF xs = <<>> THEN NegInfinity ELSE MathMax(MaxOf(SubSeq(xs, 1, Len(xs) - 1)), xs[Len(xs)])

RECURSIVE MinOf(_)
MinOf(xs) ==
  IF xs = <<>> THEN Infinity ELSE MathMin(MinOf(SubSeq(xs, 1, Len(xs) - 1)), xs[Len(xs)])

\* Share of the total volume the value area must reach (0.7).
ValueAreaShare == Frac(7, 10)

calculateVPVRPOC_StrictReach(klines, bins) ==
  IF Len(klines) = 0 THEN Null
  ELSE
    LET rng == PriceRange(klines, Len(klines))
    IN IF Ge(rng.minPrice, rng.maxPrice) \/ rng.totalVolume = R(0) THEN Null
       ELSE
         LET volumeProfile == VolumeProfile(klines, bins)
             sortedProfile == SortByVolumeDesc(volumeProfile, Len(volumeProfile))
             valueAreaPrices ==
               ValueAreaPrices_Exceeds(sortedProfile, Mul(rng.totalVolume, ValueAreaShare), 1, R(0))
         IN Some([poc |-> FindPOC(volumeProfile, Len(volumeProfile)).poc,
                  value_area_high |-> MaxOf(valueAreaPrices),
                  value_area_low |-> MinOf(valueAreaPrices),
                  total_volume |-> rng.totalVolume])

calculateVPVRPOC_LastWins(klines, bins) ==
  IF Len(klines) = 0 THEN Null
  ELSE
    LET rng == PriceRange(klines, Len(klines))
    IN IF Ge(rng.minPrice, rng.maxPrice) \/ rng.totalVolume = R(0) THEN Null
       ELSE
         LET volumeProfile == VolumeProfile(klines, bins)
             sortedProfile == SortByVolumeDesc(volumeProfile, Len(volumeProfile))
             valueAreaPrices ==
               ValueAreaPrices(sortedProfile, Mul(rng.totalVolume, ValueAreaShare), 1, R(0))
         IN Some([poc |-> FindPOC_LastWins(volumeProfile, Len(volumeProfile)).poc,
                  value_area_high |-> MaxOf(valueAreaPrices),
                  value_area_low |-> MinOf(valueAreaPrices),
                  total_volume |-> rng.totalVolume])

\* Returns Null or Some(VPVRPOC).
calculateVPVRPOC(klines, bins) ==
  IF Len(klines) = 0 THEN Null
  ELSE
    LET rng == PriceRange(klines, Len(klines))
        minPrice == rng.minPrice
        maxPrice == rng.maxPrice
        totalVolume == rng.totalVolume
    IN IF Ge(minPrice, maxPrice) \/ totalVolume = R(0) THEN Null
       ELSE
         LET volumeProfile == VolumeProfile(klines, bins)
             poc == FindPOC(volumeProfile, Len(volumeProfile)).poc
             sortedProfile == SortByVolumeDesc(volumeProfile, Len(volumeProfile))
             targetVolume == Mul(totalVolume, ValueAreaShare)
             valueAreaPrices == ValueAreaPrices(sortedProfile, targetVolume, 1, R(0))
             valueAreaHigh == MaxOf(valueAreaPrices)
             valueAreaLow == MinOf(valueAreaPrices)
         IN Some([poc |-> poc,
                  value_area_high |-> valueAreaHigh,
                  value_area_low |-> valueAreaLow,
                  total_volume |-> totalVolume])

\* Bounds of the volume-profile inputs.
MaxVpvrLen == 2
MaxBins == 3

VpvrPrices == {0, 1, 2}

VpvrVolumes == {0, 1, 2}

\* Candles with low <= high and a volume >= 0, and one candle whose volume
\* does not parse; openTime and close are not read.
VpvrCandles ==
  {Kline(0, R(h), R(l), R(0), R(v)) :
     <<h, l, v>> \in {x \in VpvrPrices \X VpvrPrices \X VpvrVolumes :
                        x[2] <= x[1]}}
  \cup {Kline(0, R(1), R(0), R(0), NaN)}

\* The scenario of the specification: two bins that receive the volumes 30
\* and 70 of a total of 100.
VpvrScenario ==
  [klines |-> <<Kline(0, R(5), R(0), R(0), R(30)), Kline(0, R(10), R(5), R(0), R(70))>>,
   bins |-> 2]

VPVRInputs ==
  {[klines |-> k, bins |-> b] : k \in SeqsOf(VpvrCandles, 0, MaxVpvrLen), b \in 1..MaxBins}
  \cup {VpvrScenario}

InitVPVR == fn = None /\ args \in VPVRInputs /\ ret = None

CallVPVRPOC ==
  /\ fn = None
  /\ fn' = "calculateVPVRPOC"
  /\ ret' = calculateVPVRPOC(args.klines, args.bins)
  /\ UNCHANGED args

NextVPVR == CallVPVRPOC

SpecVPVR == InitVPVR /\ [][NextVPVR]_vars

\* A profile was built and returned.
VPVRBuilt == fn = "calculateVPVRPOC" /\ ret # Null

RECURSIVE ProfileVolumeSum(_, _)
ProfileVolumeSum(profile, m) ==
  IF m = 0 THEN R(0) ELSE Add(profile[m].volume, ProfileVolumeSum(profile, m - 1))

\* C6: whenever a profile is built, the volumes accumulated over all bins
\* sum to the total of the input candle volumes.
C6_VolumeConserved ==
  VPVRBuilt =>
    LET profile == VolumeProfile(args.klines, args.bins)
    IN ProfileVolumeSum(profile, Len(profile)) = ret[1].total_volume

\* C6 failing input: a candle with high = low = 1 on the boundary between
\* the two bins [0,1] and [1,2] is counted in both.
C6_FailingInput ==
  [klines |-> <<Kline(0, R(2), R(0), R(0), R(1)), Kline(0, R(1), R(1), R(0), R(1))>>,
   bins |-> 2]

\* Bin i comes before bin j in volume-descending order (equal volumes keep
\* their price order).
Precedes(profile, i, j) ==
  \/ Gt(profile[i].volume, profile[j].volume)
  \/ (profile[i].volume = profile[j].volume /\ i < j)

\* The m bins that come first in volume-descending order.
TopBins(profile, m) ==
  {i \in DOMAIN profile : Cardinality({j \in DOMAIN profile : Precedes(profile, j, i)}) < m}

RECURSIVE VolumeOfBins(_, _)
VolumeOfBins(profile, S) ==
  IF S = {} THEN R(0)
  ELSE LET i == CHOOSE x \in S : TRUE
       IN Add(profile[i].volume, VolumeOfBins(profile, S \ {i}))

\* The cumulative volume of the first m bins reaches 70% of the total.
Reaches(profile, m, total) ==
  LET v == VolumeOfBins(profile, TopBins(profile, m))
  IN v.n * 10 * total.d >= 7 * total.n * v.d

\* C7: the value area is the shortest prefix of the bins in volume-descending
\* order whose cumulative volume reaches 70% of total_volume;
\* value_area_high / value_area_low are the largest / smallest price among
\* exactly those bins; with bins of volume 30 and 70 only the 70 bin is taken.
C7_ValueArea ==
  VPVRBuilt =>
    LET profile == VolumeProfile(args.klines, args.bins)
        total == ret[1].total_volume
    IN /\ \E m \in 1..Len(profile) :
            /\ Reaches(profile, m, total)
            /\ \A m2 \in 1..(m - 1) : ~Reaches(profile, m2, total)
            /\ \E hi, lo \in TopBins(profile, m) :
                 /\ ret[1].value_area_high = profile[hi].price
                 /\ ret[1].value_area_low = profile[lo].price
                 /\ \A i \in TopBins(profile, m) :
                      /\ Le(profile[i].price, profile[hi].price)
                      /\ Le(profile[lo].price, profile[i].price)
       /\ args = VpvrScenario =>
            /\ profile[1].volume = R(30) /\ profile[2].volume = R(70)
            /\ ret[1].value_area_high = profile[2].price
            /\ ret[1].value_area_low = profile[2].price

\* C7 witness: a profile whose value area needs more than one bin but not
\* all of them.
C7_Witness ==
  /\ VPVRBuilt
  /\ args.bins >= 3
  /\ Lt(ret[1].value_area_low, ret[1].value_area_high)
  /\ \E i \in 1..args.bins :
       LET price == VolumeProfile(args.klines, args.bins)[i].price
       IN Lt(price, ret[1].value_area_low) \/ Gt(price, ret[1].value_area_high)

\* C8: whenever a result is returned, poc is the mid price of a bin of
\* maximal accumulated volume, the lowest-priced one on ties, and
\* value_area_low <= poc <= value_area_high.
C8_POC ==
  VPVRBuilt =>
    LET profile == VolumeProfile(args.klines, args.bins)
    IN /\ \E i \in DOMAIN profile :
            /\ ret[1].poc = profile[i].price
            /\ \A j \in DOMAIN profile : Le(profile[j].volume, profile[i].volume)
            /\ \A j \in 1..(i - 1) : Lt(profile[j].volume, profile[i].volume)
       /\ Le(ret[1].value_area_low, ret[1].poc)
       /\ Le(ret[1].poc, ret[1].value_area_high)

\* C8 witness: two bins tie for the maximal volume and the value area is
\* wider than the point of control.
C8_Witness ==
  /\ VPVRBuilt
  /\ LET profile == VolumeProfile(args.klines, args.bins)
     IN \E i, j \in DOMAIN profile :
          /\ i < j
          /\ profile[i].volume = profile[j].volume
          /\ \A k \in DOMAIN profile : Le(profile[k].volume, profile[i].volume)
          /\ ret[1].poc = profile[i].price
  /\ Lt(ret[1].poc, ret[1].value_area_high)

----------------------------------------------------------------------------
(* analyzeWeeklyPattern / analyzeMarketWeeklyPattern *)

\* new Date(ms).getUTCDay() for ms >= 0: 1970-01-01 was a Thursday (4).
getUTCDay(ms) == ((ms \div 86400000) + 4) % 7

\* new Date(ms).getUTCHours() for ms >= 0.
getUTCHours(ms) == (ms \div 3600000) % 24

\* Weekday (0 = Sunday .. 6 = Saturday) of a candle in UTC+9.
KstDayOfWeek(openTimeMs) ==
  LET openTime == MathFloor(Div(R(openTimeMs), R(1000)))
      kstTime == openTime + 9 * 60 * 60
  IN getUTCDay(kstTime * 1000)

\* dayNames of analyzeWeeklyPattern, index 0 = Sunday (romanised).
WeeklyDayNames == <<"iryoil", "woryoil", "hwayoil", "suyoil", "mogyoil", "geumyoil", "toyoil">>

\* dayNames / dayKeys of analyzeMarketWeeklyPattern, Monday first.
MarketDayNames == <<"woryoil", "hwayoil", "suyoil", "mogyoil", "geumyoil", "toyoil", "iryoil">>

DayKeys == <<"monday", "tuesday", "wednesday", "thursday", "friday", "saturday", "sunday">>

\* '없음': no weekday has observations.
NoDay == "eopseum"

\* const period = 14 of the per-weekday ATR%.
WeeklyAtrPeriod == 14

\* TR[i] for the 0-based candle index i; TR[0] = 0.
WeeklyTR(klines, i) ==
  IF i = 0 THEN R(0)
  ELSE LET high == klines[i + 1].high
           low == klines[i + 1].low
           prevClose == klines[i].close
       IN MathMax(MathMax(Sub(high, low), MathAbs(Sub(high, prevClose))),
                  MathAbs(Sub(low, prevClose)))

RECURSIVE WeeklyTRSum(_, _)
WeeklyTRSum(klines, i) ==
  IF i = 0 THEN R(0)
  ELSE LET before == WeeklyTRSum(klines, i - 1)
       IN IF isNaN(before) THEN NaN ELSE Add(before, WeeklyTR(klines, i))

\* The running atr at 0-based index i >= period: the seed is the sum of
\* TR[1..period] over period, then Wilder smoothing.
RECURSIVE WeeklyAtr(_, _)
WeeklyAtr(klines, i) ==
  IF i <= WeeklyAtrPeriod
  THEN Div(WeeklyTRSum(klines, MinInt(WeeklyAtrPeriod, Len(klines) - 1)), R(WeeklyAtrPeriod))
  ELSE LET atr == WeeklyAtr(klines, i - 1)
       IN IF isNaN(atr) THEN NaN
          ELSE Div(Add(Mul(atr, R(WeeklyAtrPeriod - 1)), WeeklyTR(klines, i)),
                   R(WeeklyAtrPeriod))

\* atrPct[i] for the 0-based index i.
WeeklyAtrPct(klines, i) ==
  IF i < WeeklyAtrPeriod THEN R(0)
  ELSE LET close == klines[i + 1].close
       IN IF Gt(close, R(0)) THEN Mul(Div(WeeklyAtr(klines, i), close), R(100)) ELSE R(0)

\* One entry per candle after the first: its weekday, close-to-close change
\* in percent, and ATR%.
WeeklyObservations(klines) ==
  Arr([i \in 1..(Len(klines) - 1) |->
         LET prevClose == klines[i].close
             currentClose == klines[i + 1].close
         IN [dayOfWeek |-> KstDayOfWeek(klines[i + 1].openTime),
             change |-> Mul(Div(Sub(currentClose, prevClose), prevClose), R(100)),
             atrPct |-> WeeklyAtrPct(klines, i),
             i |-> i]])

\* changes.filter(c => c > 0).length and changes.filter(c => c < 0).length
CountPositive(s) == Len(SelectSeq(s, LAMBDA c : Gt(c, R(0))))

CountNegative(s) == Len(SelectSeq(s, LAMBDA c : Lt(c, R(0))))

\* A plausible slip: the rate of rises is stored as winRate.
DayPatternOf_PositiveRate(dayName, changes, atrs) ==
  LET avgAtrPct == IF Len(atrs) > 0 THEN Div(SumR(atrs), R(Len(atrs))) ELSE R(0)
  IN IF Len(changes) = 0
     THEN [day |-> dayName, positiveCount |-> 0, negativeCount |-> 0, totalCount |-> 0,
           winRate |-> Frac(1, 2), maxChange |-> R(0), minChange |-> R(0),
           avgAtrPct |-> avgAtrPct]
     ELSE [day |-> dayName,
           positiveCount |-> CountPositive(changes),
           negativeCount |-> CountNegative(changes),
           totalCount |-> Len(changes),
           winRate |-> Div(R(CountPositive(changes)), R(Len(changes))),
           maxChange |-> MaxOf(changes), minChange |-> MinOf(changes),
           avgAtrPct |-> avgAtrPct]

\* The DayPattern of one weekday from its changes and ATR% values.
DayPatternOf(dayName, changes, atrs) ==
  LET avgAtrPct == IF Len(atrs) > 0 THEN Div(SumR(atrs), R(Len(atrs))) ELSE R(0)
  IN IF Len(changes) = 0
     THEN [day |-> dayName, positiveCount |-> 0, negativeCount |-> 0, totalCount |-> 0,
           winRate |-> Frac(1, 2), maxChange |-> R(0), minChange |-> R(0),
           avgAtrPct |-> avgAtrPct]
     ELSE LET positiveCount == CountPositive(changes)
              negativeCount == CountNegative(changes)
              totalCount == Len(changes)
              winRate == Div(R(negativeCount), R(totalCount))
          IN [day |-> dayName, positiveCount |-> positiveCount,
              negativeCount |-> negativeCount, totalCount |-> totalCount,
              winRate |-> winRate,
              maxChange |-> MaxOf(changes), minChange |-> MinOf(changes),
              avgAtrPct |-> avgAtrPct]

\* Object.entries(patterns).filter(totalCount > 0).sort(by winRate)[0]?.[0]
\* || '없음': the first entry, in insertion order, of the best winRate.
\* a sorts strictly before b when a > b (descending) or a < b (ascending).
FirstBy(entries, descending) ==
  LET better(a, b) == IF descending THEN Gt(a, b) ELSE Lt(a, b)
      live == SelectSeq(entries, LAMBDA p : p.totalCount > 0)
  IN IF live = <<>> THEN NoDay
     ELSE LET k == CHOOSE i \in DOMAIN live :
                     /\ \A j \in DOMAIN live : ~better(live[j].winRate, live[i].winRate)
                     /\ \A j \in 1..(i - 1) : better(live[j].winRate, live[i].winRate)
                                              \/ better(live[i].winRate, live[j].winRate)
          IN live[k].day

\* Assemble the WeeklyPattern from the patterns in insertion order, given
\* the position of each day key in that order.
WeeklyPatternOf(patterns, keyIndex) ==
  [monday |-> patterns[keyIndex.monday], tuesday |-> patterns[keyIndex.tuesday],
   wednesday |-> patterns[keyIndex.wednesday], thursday |-> patterns[keyIndex.thursday],
   friday |-> patterns[keyIndex.friday], saturday |-> patterns[keyIndex.saturday],
   sunday |-> patterns[keyIndex.sunday],
   bestDay |-> FirstBy(patterns, TRUE),
   worstDay |-> FirstBy(patterns, FALSE)]

\* Returns Null or Some(WeeklyPattern).
analyzeWeeklyPattern(klines) ==
  IF Len(klines) < 7 THEN Null
  ELSE
    LET obs == WeeklyObservations(klines)
        patterns ==
          Arr([d \in 1..7 |->
                 LET mine == SelectSeq(obs, LAMBDA o : o.dayOfWeek = d - 1)
                     changes == Arr([j \in DOMAIN mine |-> mine[j].change])
                     withAtr == SelectSeq(mine, LAMBDA o : o.i >= WeeklyAtrPeriod /\ Gt(o.atrPct, R(0)))
                     atrs == Arr([j \in DOMAIN withAtr |-> withAtr[j].atrPct])
                 IN DayPatternOf(WeeklyDayNames[d], changes, atrs)])
    IN Some(WeeklyPatternOf(patterns,
              [sunday |-> 1, monday |-> 2, tuesday |-> 3, wednesday |-> 4,
               thursday |-> 5, friday |-> 6, saturday |-> 7]))

RECURSIVE SumInt(_)
SumInt(s) == IF s = <<>> THEN 0 ELSE SumInt(SubSeq(s, 1, Len(s) - 1)) + s[Len(s)]

\* symbolPatterns: a sequence of Null / Some(WeeklyPattern).
analyzeMarketWeeklyPattern(symbolPatterns) ==
  LET validPatterns == SelectSeq(symbolPatterns, LAMBDA p : p # Null)
  IN IF Len(validPatterns) = 0 THEN Null
     ELSE
       LET aggregated ==
             Arr([i \in 1..7 |->
                LET dayName == MarketDayNames[i]
                    dayKey == DayKeys[i]
                    all == Arr([j \in DOMAIN validPatterns |-> validPatterns[j][1][dayKey]])
                    dayData == SelectSeq(all, LAMBDA d : d.totalCount > 0)
                IN IF Len(dayData) = 0
                   THEN [day |-> dayName, positiveCount |-> 0, negativeCount |-> 0,
                         totalCount |-> 0, winRate |-> Frac(1, 2), maxChange |-> R(0),
                         minChange |-> R(0), avgAtrPct |-> R(0)]
                   ELSE
                     LET totalPositive == SumInt([j \in DOMAIN dayData |-> dayData[j].positiveCount])
                         totalNegative == SumInt([j \in DOMAIN dayData |-> dayData[j].negativeCount])
                         totalCount == totalPositive + totalNegative
                         winRate == IF totalCount > 0
                                    THEN Div(R(totalNegative), R(totalCount))
                                    ELSE Frac(1, 2)
                     IN [day |-> dayName, positiveCount |-> totalPositive,
                         negativeCount |-> totalNegative, totalCount |-> totalCount,
                         winRate |-> winRate,
                         maxChange |-> MaxOf([j \in DOMAIN dayData |-> dayData[j].maxChange]),
                         minChange |-> MinOf([j \in DOMAIN dayData |-> dayData[j].minChange]),
                         avgAtrPct |-> Div(SumR([j \in DOMAIN dayData |-> dayData[j].avgAtrPct]),
                                           R(Len(dayData)))]])
       IN Some(WeeklyPatternOf(aggregated,
                 [monday |-> 1, tuesday |-> 2, wednesday |-> 3, thursday |-> 4,
                  friday |-> 5, saturday |-> 6, sunday |-> 7]))

\* Bound of the weekly inputs: the largest number of candles.
MaxWeeklyLen == 7

\* Open time of the first candle (09:00 and 00:00 in UTC+9), candle interval
\* (4 h and 1 d) in milliseconds, and closes.
WeeklyStarts == {0, 54000000}

WeeklySteps == {14400000, 86400000}

WeeklyCloses == {1, 2}

\* Candles of one interval dt, opening at t0, t0 + dt, ...; high = low = close.
WeeklyKlines(t0, dt, closes) ==
  [i \in 1..Len(closes) |->
     Kline(t0 + (i - 1) * dt, R(closes[i]), R(closes[i]), R(closes[i]), R(0))]

\* Patterns of the other symbols of a market aggregation: two fixed symbols,
\* one of daily candles and one of 4 h candles, and a symbol without data.
PeerDaily ==
  analyzeWeeklyPattern(WeeklyKlines(0, 86400000, <<2, 1, 1, 2, 1, 2, 1>>))

PeerFourHour ==
  analyzeWeeklyPattern(WeeklyKlines(54000000, 14400000, <<1, 1, 2, 1, 1, 1, 2>>))

PeerPatterns == {<<>>, <<Null>>, <<PeerDaily>>, <<Null, PeerFourHour>>}

InitWeekly ==
  /\ fn = None
  /\ ret = None
  /\ \E n \in 6..MaxWeeklyLen, t0 \in WeeklyStarts :
       \E dt \in WeeklySteps, c \in [1..n -> WeeklyCloses] :
         args = [klines |-> WeeklyKlines(t0, dt, c)]

\* One symbol's pattern, as fetchData computes it from the daily candles.
CallWeeklyPattern ==
  /\ fn = None
  /\ fn' = "analyzeWeeklyPattern"
  /\ ret' = analyzeWeeklyPattern(args.klines)
  /\ UNCHANGED args

\* The market pattern over that symbol's pattern and the other symbols'.
CallMarketWeeklyPattern ==
  /\ fn = "analyzeWeeklyPattern"
  /\ \E peers \in PeerPatterns :
       /\ args' = [symbolPatterns |-> <<ret>> \o peers]
       /\ ret' = analyzeMarketWeeklyPattern(args'.symbolPatterns)
  /\ fn' = "analyzeMarketWeeklyPattern"

NextWeekly == CallWeeklyPattern \/ CallMarketWeeklyPattern

SpecWeekly == InitWeekly /\ [][NextWeekly]_vars

\* Weekday number (0 = Sunday) of each key of a WeeklyPattern.
DayNumber ==
  [sunday |-> 0, monday |-> 1, tuesday |-> 2, wednesday |-> 3, thursday |-> 4,
   friday |-> 5, saturday |-> 6]

\* The candles (after the first) that open on weekday d in UTC+9, and
\* those among them that closed below / above the previous close.
OpensOn(k, d) ==
  {i \in 2..Len(k) : (((k[i].openTime + 32400000) \div 86400000) + 4) % 7 = d}

FellOn(k, d) == {i \in OpensOn(k, d) : Lt(k[i].close, k[i - 1].close)}

RoseOn(k, d) == {i \in OpensOn(k, d) : Gt(k[i].close, k[i - 1].close)}

----------------------------------------------------------------------------
(* analyzeDayHourPattern / analyzeMarketDayHourPattern *)

\* First loop: hour, weekday and date of each candle in UTC+9.  The date key
\* `${year}-${month}-${day}` is modelled by the day number of that date.
DayHourEntries(klines) ==
  Arr([i \in 1..Len(klines) |->
         LET openTime == MathFloor(Div(R(klines[i].openTime), R(1000)))
             utcHour == getUTCHours(openTime * 1000)
             kstHour == (utcHour + 9) % 24
             kstTime == openTime + 9 * 60 * 60
         IN [hour |-> kstHour,
             price |-> klines[i].close,
             dayOfWeek |-> getUTCDay(kstTime * 1000),
             dateKey |-> (kstTime * 1000) \div 86400000]])

\* Second loop: the change of each candle against the first 09:00 candle of
\* its date, filed under that 09:00 candle's weekday; dates without a 09:00
\* candle are skipped.
DayHourChanges(entries) ==
  LET HasNine(e) == \E j \in DOMAIN entries : entries[j].dateKey = e.dateKey /\ entries[j].hour = 9
      NineAM(e) ==
        entries[CHOOSE j \in DOMAIN entries :
                  /\ entries[j].dateKey = e.dateKey /\ entries[j].hour = 9
                  /\ \A k \in 1..(j - 1) : ~(entries[k].dateKey = e.dateKey /\ entries[k].hour = 9)]
      kept == SelectSeq(entries, LAMBDA e : HasNine(e) /\ e.hour >= 0 /\ e.hour <= 23)
  IN Arr([i \in DOMAIN kept |->
            LET nineAM == NineAM(kept[i])
                basePrice == nineAM.price
            IN [dayOfWeek |-> nineAM.dayOfWeek,
                hour |-> kept[i].hour,
                changeFrom9AM |-> Mul(Div(Sub(kept[i].price, basePrice), basePrice), R(100))]])

\* A plausible slip: the 09:00 cell is averaged like every other cell.
DayHourCell_Averaged(day, hour, changes) ==
  IF Len(changes) = 0
  THEN [dayOfWeek |-> day, hour |-> hour, avgChange |-> R(0), totalCount |-> 0]
  ELSE [dayOfWeek |-> day, hour |-> hour,
        avgChange |-> Div(SumR(changes), R(Len(changes))),
        totalCount |-> Len(changes)]

\* One cell of the table from the changes filed under (day, hour).
DayHourCell(day, hour, changes) ==
  IF Len(changes) = 0
  THEN [dayOfWeek |-> day, hour |-> hour,
        avgChange |-> IF hour = 9 THEN R(0) ELSE R(0),
        totalCount |-> 0]
  ELSE LET avgChange == IF hour = 9 THEN R(0) ELSE Div(SumR(changes), R(Len(changes)))
       IN [dayOfWeek |-> day, hour |-> hour, avgChange |-> avgChange,
           totalCount |-> Len(changes)]

\* dayNames of the day-hour table, Monday first (romanised).
DayHourDayNames == <<"wol", "hwa", "su", "mok", "geum", "to", "il">>

\* Returns Null or Some(DayHourPattern).  data[r][h + 1] is the cell of
\* row r (1 = Monday .. 7 = Sunday) and hour h.
analyzeDayHourPattern(klines) ==
  IF Len(klines) < 24 THEN Null
  ELSE
    LET filed == DayHourChanges(DayHourEntries(klines))
        data ==
          Arr([d \in 1..7 |->
                 Arr([h \in 1..24 |->
                        LET mine == SelectSeq(filed, LAMBDA c : c.dayOfWeek = d - 1 /\ c.hour = h - 1)
                        IN DayHourCell(d - 1, h - 1, Arr([j \in DOMAIN mine |-> mine[j].changeFrom9AM]))])])
        reorderedData == <<data[2], data[3], data[4], data[5], data[6], data[7], data[1]>>
    IN Some([data |-> reorderedData, dayNames |-> DayHourDayNames])

\* A plausible slip: the market cell is the simple mean of the symbols' means.
analyzeMarketDayHourPattern_MeanOfMeans(symbolPatterns) ==
  LET validPatterns == SelectSeq(symbolPatterns, LAMBDA p : p # Null)
  IN IF Len(validPatterns) = 0 THEN Null
     ELSE
       LET aggregatedData ==
             Arr([d \in 1..7 |->
                    Arr([h \in 1..24 |->
                           LET day == d - 1
                               hour == h - 1
                               all == Arr([j \in DOMAIN validPatterns |-> validPatterns[j][1].data[d][h]])
                               dayHourData == SelectSeq(all, LAMBDA c : c.totalCount > 0)
                               originalDayOfWeek == IF day = 6 THEN 0 ELSE day + 1
                           IN IF Len(dayHourData) = 0
                              THEN [dayOfWeek |-> originalDayOfWeek, hour |-> hour,
                                    avgChange |-> IF hour = 9 THEN R(0) ELSE R(0),
                                    totalCount |-> 0]
                              ELSE
                                LET totalCount == SumInt([j \in DOMAIN dayHourData |-> dayHourData[j].totalCount])
                                    meanSum ==
                                      SumR([j \in DOMAIN dayHourData |-> dayHourData[j].avgChange])
                                    avgChange == IF hour = 9 THEN R(0)
                                                 ELSE Div(meanSum, R(Len(dayHourData)))
                                IN [dayOfWeek |-> originalDayOfWeek, hour |-> hour,
                                    avgChange |-> avgChange, totalCount |-> totalCount]])])
       IN Some([data |-> aggregatedData, dayNames |-> DayHourDayNames])

\* symbolPatterns: a sequence of Null / Some(DayHourPattern).
analyzeMarketDayHourPattern(symbolPatterns) ==
  LET validPatterns == SelectSeq(symbolPatterns, LAMBDA p : p # Null)
  IN IF Len(validPatterns) = 0 THEN Null
     ELSE
       LET aggregatedData ==
             Arr([d \in 1..7 |->
                    Arr([h \in 1..24 |->
                           LET day == d - 1
                               hour == h - 1
                               all == Arr([j \in DOMAIN validPatterns |-> validPatterns[j][1].data[d][h]])
                               dayHourData == SelectSeq(all, LAMBDA c : c.totalCount > 0)
                               originalDayOfWeek == IF day = 6 THEN 0 ELSE day + 1
                           IN IF Len(dayHourData) = 0
                              THEN [dayOfWeek |-> originalDayOfWeek, hour |-> hour,
                                    avgChange |-> IF hour = 9 THEN R(0) ELSE R(0),
                                    totalCount |-> 0]
                              ELSE
                                LET totalCount == SumInt([j \in DOMAIN dayHourData |-> dayHourData[j].totalCount])
                                    weightedSum ==
                                      SumR([j \in DOMAIN dayHourData |->
                                              Mul(dayHourData[j].avgChange, R(dayHourData[j].totalCount))])
                                    avgChange == IF hour = 9 THEN R(0)
                                                 ELSE IF totalCount > 0
                                                      THEN Div(weightedSum, R(totalCount))
                                                      ELSE R(0)
                                IN [dayOfWeek |-> originalDayOfWeek, hour |-> hour,
                                    avgChange |-> avgChange, totalCount |-> totalCount]])])
       IN Some([data |-> aggregatedData, dayNames |-> DayHourDayNames])

\* Bounds of the hourly inputs: the largest number of candles, and the
\* length of the cycle the closes repeat.
MaxHourlyLen == 25
HourlyCycle == 3

\* Open time of the first candle (09:00 and 00:00 in UTC+9) and closes.
HourlyStarts == {0, 54000000}

HourlyCloses == {0, 1, 2}

\* Hourly candles opening at t0, t0 + 1 h, ...; high = low = close.
HourlyKlines(t0, n, cycle) ==
  [i \in 1..n |->
     LET c == R(cycle[((i - 1) % Len(cycle)) + 1])
     IN Kline(t0 + (i - 1) * 3600000, c, c, c, R(0))]

\* The other symbols of a market aggregation, each with the candles its
\* table was analysed from (Null: none): a symbol without data, a symbol
\* with 24 hourly candles, a symbol with 48 half-hour candles (two
\* observations per cell), and a table whose every cell holds one
\* observation of +1%.
PeerHourlyKlines == HourlyKlines(0, 24, <<2, 1>>)

PeerHourly == analyzeDayHourPattern(PeerHourlyKlines)

PeerHalfHourKlines ==
  [i \in 1..48 |->
     LET c == R(<<4, 5, 3>>[((i - 1) % 3) + 1])
     IN Kline((i - 1) * 1800000, c, c, c, R(0))]

PeerHalfHour == analyzeDayHourPattern(PeerHalfHourKlines)

PeerUniform ==
  Some([data |-> [d \in 1..7 |->
                    [h \in 1..24 |->
                       [dayOfWeek |-> IF d = 7 THEN 0 ELSE d, hour |-> h - 1,
                        avgChange |-> R(1), totalCount |-> 1]]],
        dayNames |-> DayHourDayNames])

PeerDayHourSources ==
  {<<>>,
   <<[klines |-> Null, pattern |-> Null]>>,
   <<[klines |-> Some(PeerHourlyKlines), pattern |-> PeerHourly]>>,
   <<[klines |-> Some(PeerHalfHourKlines), pattern |-> PeerHalfHour]>>,
   <<[klines |-> Null, pattern |-> Null], [klines |-> Null, pattern |-> PeerUniform]>>,
   <<[klines |-> Some(PeerHalfHourKlines), pattern |-> PeerHalfHour],
     [klines |-> Null, pattern |-> PeerUniform]>>}

InitDayHour ==
  /\ fn = None
  /\ ret = None
  /\ \E n \in 23..MaxHourlyLen, t0 \in HourlyStarts :
       \E cycle \in [1..HourlyCycle -> HourlyCloses] :
         args = [klines |-> HourlyKlines(t0, n, cycle)]

\* One symbol's table, as fetchData computes it from the 1 h candles.
CallDayHourPattern ==
  /\ fn = None
  /\ fn' = "analyzeDayHourPattern"
  /\ ret' = analyzeDayHourPattern(args.klines)
  /\ UNCHANGED args

\* The market table over that symbol's table and the other symbols'.
\* symbolKlines keeps, next to each table, the candles it was analysed from.
CallMarketDayHourPattern ==
  /\ fn = "analyzeDayHourPattern"
  /\ \E peers \in PeerDayHourSources :
       /\ args' = [symbolPatterns |-> <<ret>> \o [j \in DOMAIN peers |-> peers[j].pattern],
                   symbolKlines |-> <<Some(args.klines)>> \o [j \in DOMAIN peers |-> peers[j].klines]]
       /\ ret' = analyzeMarketDayHourPattern(args'.symbolPatterns)
  /\ fn' = "analyzeMarketDayHourPattern"

NextDayHour == CallDayHourPattern \/ CallMarketDayHourPattern

SpecDayHour == InitDayHour /\ [][NextDayHour]_vars

\* C10: in the result of analyzeDayHourPattern and of
\* analyzeMarketDayHourPattern the hour-9 cell of every weekday row has
\* avgChange exactly 0.
C10_NineIsZero ==
  (fn \in {"analyzeDayHourPattern", "analyzeMarketDayHourPattern"} /\ ret # Null) =>
    \A d \in 1..7 : ret[1].data[d][10].hour = 9 /\ ret[1].data[d][10].avgChange = R(0)

\* C10 witness: a market table in which an hour-9 cell pools observations
\* of two symbols, one of them reporting a non-zero average there, and
\* another cell of the same row is non-zero.
C10_Witness ==
  /\ fn = "analyzeMarketDayHourPattern"
  /\ ret # Null
  /\ \E d \in 1..7 :
       /\ ret[1].data[d][10].totalCount >= 2
       /\ \E j \in DOMAIN args.symbolPatterns :
            /\ args.symbolPatterns[j] # Null
            /\ args.symbolPatterns[j][1].data[d][10].avgChange # R(0)
       /\ \E h \in 1..24 : ret[1].data[d][h].avgChange # R(0)

\* The weekday (0 = Sunday) shown in row d of a day-hour table.
RowDay(d) == IF d = 7 THEN 0 ELSE d

\* The changes a symbol files, read from its candles (none when it has
\* fewer than 24 candles).
SymbolChanges(klines) ==
  IF Len(klines) < 24 THEN <<>> ELSE DayHourChanges(DayHourEntries(klines))

\* The observations of row d, hour h - 1 among the changes of symbols 1..m.
RECURSIVE PooledObservations(_, _, _, _)
PooledObservations(symbolChanges, m, d, h) ==
  IF m = 0 THEN <<>>
  ELSE LET mine == SelectSeq(symbolChanges[m],
                             LAMBDA c : c.dayOfWeek = RowDay(d) /\ c.hour = h - 1)
       IN PooledObservations(symbolChanges, m - 1, d, h)
            \o [j \in DOMAIN mine |-> mine[j].changeFrom9AM]

\* Sums over the symbols 1..m that contribute to cell (d, h): their counts,
\* and their averages weighted by their counts.
RECURSIVE CellCountSum(_, _, _, _)
CellCountSum(symbolPatterns, m, d, h) ==
  IF m = 0 THEN 0
  ELSE CellCountSum(symbolPatterns, m - 1, d, h)
         + (IF symbolPatterns[m] # Null /\ symbolPatterns[m][1].data[d][h].totalCount > 0
            THEN symbolPatterns[m][1].data[d][h].totalCount ELSE 0)

RECURSIVE CellWeightedSum(_, _, _, _)
CellWeightedSum(symbolPatterns, m, d, h) ==
  IF m = 0 THEN R(0)
  ELSE IF symbolPatterns[m] # Null /\ symbolPatterns[m][1].data[d][h].totalCount > 0
  THEN Add(CellWeightedSum(symbolPatterns, m - 1, d, h),
           Mul(symbolPatterns[m][1].data[d][h].avgChange,
               R(symbolPatterns[m][1].data[d][h].totalCount)))
  ELSE CellWeightedSum(symbolPatterns, m - 1, d, h)

\* Every table of the aggregation was analysed from known candles.
AllFromCandles ==
  \A j \in DOMAIN args.symbolPatterns :
    args.symbolPatterns[j] # Null => args.symbolKlines[j] # Null

MarketDayHourDone == fn = "analyzeMarketDayHourPattern" /\ ret # Null

\* C11: in every cell other than hour 9 of the market day-hour table,
\* totalCount is the sum of the contributing symbols' counts and avgChange
\* is sum(avgChange_i * totalCount_i) / sum(totalCount_i) over the symbols
\* with totalCount_i > 0 (symbols with count 0 in the cell have no
\* influence; an empty cell is 0 / 0 observations); and when every table
\* comes from candles, that is the mean of all observations pooled over
\* the symbols.
C11_WeightedMean ==
  MarketDayHourDone =>
    LET n == Len(args.symbolPatterns)
        symbolChanges ==
          Arr([j \in 1..n |->
                 IF args.symbolPatterns[j] # Null /\ args.symbolKlines[j] # Null
                 THEN SymbolChanges(args.symbolKlines[j][1]) ELSE <<>>])
    IN \A d \in 1..7 : \A h \in (1..24) \ {10} :
         LET cell == ret[1].data[d][h]
             count == CellCountSum(args.symbolPatterns, n, d, h)
             pooled == PooledObservations(symbolChanges, n, d, h)
         IN /\ cell.totalCount = count
            /\ IF count = 0 THEN cell.avgChange = R(0)
               ELSE cell.avgChange = Div(CellWeightedSum(args.symbolPatterns, n, d, h), R(count))
            /\ AllFromCandles =>
                 /\ cell.totalCount = Len(pooled)
                 /\ Len(pooled) > 0 => cell.avgChange = Div(SumR(pooled), R(Len(pooled)))

\* C11 witness: a market cell, not of hour 9, that pools a symbol with one
\* observation and a symbol with two, the two symbols' averages differing,
\* all tables analysed from candles.
C11_Witness ==
  /\ MarketDayHourDone
  /\ AllFromCandles
  /\ \E d \in 1..7 : \E h \in (1..24) \ {10} :
       /\ ret[1].data[d][h].totalCount = 3
       /\ isFinite(ret[1].data[d][h].avgChange)
       /\ \E i, j \in DOMAIN args.symbolPatterns :
            /\ args.symbolPatterns[i] # Null /\ args.symbolPatterns[j] # Null
            /\ args.symbolPatterns[i][1].data[d][h].totalCount = 1
            /\ args.symbolPatterns[j][1].data[d][h].totalCount = 2
            /\ args.symbolPatterns[i][1].data[d][h].avgChange
                 # args.symbolPatterns[j][1].data[d][h].avgChange

----------------------------------------------------------------------------
(* calculateShortScore and the timing step of ShortAnalysis.fetchData *)

\* A JavaScript number used as a condition: 0 and NaN are falsy.
Truthy(x) == ~isNaN(x) /\ x # R(0)

\* Decimal strings are sequences of one-character strings.
Digits == {"0", "1", "2", "3", "4", "5", "6", "7", "8", "9"}

DigitValue(c) ==
  CASE c = "0" -> 0 [] c = "1" -> 1 [] c = "2" -> 2 [] c = "3" -> 3 [] c = "4" -> 4
    [] c = "5" -> 5 [] c = "6" -> 6 [] c = "7" -> 7 [] c = "8" -> 8 [] c = "9" -> 9

\* Length of the longest run of digits of chars starting at position i.
RECURSIVE DigitRun(_, _)
DigitRun(chars, i) ==
  IF i <= Len(chars) /\ chars[i] \in Digits THEN 1 + DigitRun(chars, i + 1) ELSE 0

RECURSIVE DigitsValue(_)
DigitsValue(chars) ==
  IF chars = <<>> THEN 0
  ELSE 10 * DigitsValue(SubSeq(chars, 1, Len(chars) - 1)) + DigitValue(chars[Len(chars)])

RECURSIVE Pow10(_)
Pow10(k) == IF k = 0 THEN 1 ELSE 10 * Pow10(k - 1)

\* parseFloat of a decimal string: an optional sign, digits, an optional
\* fraction; the longest such prefix is read, and NaN when it has no digit.
\* (Exponents do not occur in the exchange's strings.)
parseFloat(chars) ==
  LET negative == Len(chars) >= 1 /\ chars[1] = "-"
      first == IF negative \/ (Len(chars) >= 1 /\ chars[1] = "+") THEN 2 ELSE 1
      intLen == DigitRun(chars, first)
      dot == first + intLen
      fracLen == IF dot <= Len(chars) /\ chars[dot] = "." THEN DigitRun(chars, dot + 1) ELSE 0
      intPart == DigitsValue(SubSeq(chars, first, dot - 1))
      fracPart == DigitsValue(SubSeq(chars, dot + 1, dot + fracLen))
      magnitude == Frac(intPart * Pow10(fracLen) + fracPart, Pow10(fracLen))
  IN IF intLen + fracLen = 0 THEN NaN
     ELSE IF negative THEN Neg(magnitude) ELSE magnitude

\* `now` stands for the value of Date.now().
calculateFundingPeriod(nextFundingTime, fundingIntervalHours, now) ==
  IF fundingIntervalHours # Null /\ Truthy(fundingIntervalHours[1])
     /\ Gt(fundingIntervalHours[1], R(0))
  THEN fundingIntervalHours[1]
  ELSE IF nextFundingTime = 0 THEN R(8)
  ELSE LET timeUntilNext == nextFundingTime - now
           hoursUntilNext == Div(R(timeUntilNext), R(60 * 60 * 1000))
       IN IF Gt(hoursUntilNext, R(0)) /\ Le(hoursUntilNext, Frac(3, 2)) THEN R(1)
          ELSE IF Gt(hoursUntilNext, Frac(3, 2)) /\ Le(hoursUntilNext, Frac(9, 2)) THEN R(4)
          ELSE R(8)

calculateHourlyFundingRate(lastFundingRate, nextFundingTime, fundingIntervalHours, now) ==
  IF ~Truthy(lastFundingRate) THEN R(0)
  ELSE LET fundingPeriod == calculateFundingPeriod(nextFundingTime, fundingIntervalHours, now)
       IN Div(lastFundingRate, fundingPeriod)

\* ma50Data / ma200Data: Null (undefined) or a sequence of [time, value].
calculateMAScore(currentPrice, ma50Data, ma200Data) ==
  IF ma50Data = Null \/ ma200Data = Null THEN Frac(1, 2)
  ELSE IF Len(ma50Data[1]) = 0 \/ Len(ma200Data[1]) = 0 THEN Frac(1, 2)
  ELSE
    LET latestMA50 == ma50Data[1][Len(ma50Data[1])].value
        latestMA200 == ma200Data[1][Len(ma200Data[1])].value
    IN IF ~Truthy(latestMA50) \/ ~Truthy(latestMA200) THEN Frac(1, 2)
       ELSE
         LET Step(maDiff) == IF Gt(maDiff, R(5)) THEN Frac(20, 100)
                             ELSE IF Gt(maDiff, R(2)) THEN Frac(15, 100)
                             ELSE Frac(10, 100)
             score1 ==
               IF Lt(latestMA50, latestMA200)
               THEN Add(Frac(1, 2),
                        Step(Mul(Div(Sub(latestMA200, latestMA50), latestMA200), R(100))))
               ELSE IF Gt(latestMA50, latestMA200)
               THEN Sub(Frac(1, 2),
                        Step(Mul(Div(Sub(latestMA50, latestMA200), latestMA200), R(100))))
               ELSE Frac(1, 2)
             score2 ==
               IF Gt(currentPrice, latestMA50) /\ Gt(latestMA50, latestMA200)
               THEN LET priceDiff == Mul(Div(Sub(currentPrice, latestMA50), latestMA50), R(100))
                    IN IF Gt(priceDiff, R(5)) THEN Add(score1, Frac(15, 100))
                       ELSE IF Gt(priceDiff, R(2)) THEN Add(score1, Frac(10, 100))
                       ELSE Add(score1, Frac(5, 100))
               ELSE IF Lt(currentPrice, latestMA50) /\ Lt(latestMA50, latestMA200)
               THEN LET priceDiff == Mul(Div(Sub(latestMA50, currentPrice), latestMA50), R(100))
                    IN IF Gt(priceDiff, R(5)) THEN Add(score1, Frac(10, 100))
                       ELSE IF Gt(priceDiff, R(2)) THEN Add(score1, Frac(5, 100))
                       ELSE score1
               ELSE IF Lt(currentPrice, latestMA200) /\ Gt(latestMA50, latestMA200)
               THEN Add(score1, Frac(5, 100))
               ELSE IF Gt(currentPrice, latestMA200) /\ Lt(latestMA50, latestMA200)
               THEN Sub(score1, Frac(10, 100))
               ELSE score1
         IN MathMax(R(0), MathMin(R(1), score2))

\* vpvrPOC: Null (null, undefined, or a value without a poc field) or
\* Some(VPVRPOC); atr: Null (undefined) or Some(number).
calculateVPVRScore(currentPrice, vpvrPOC, atr) ==
  IF vpvrPOC = Null THEN Frac(1, 2)
  ELSE IF ~Truthy(vpvrPOC[1].poc) \/ isNaN(vpvrPOC[1].poc) \/ ~isFinite(vpvrPOC[1].poc)
  THEN Frac(1, 2)
  ELSE
    LET poc == vpvrPOC[1].poc
        priceDiff == Sub(currentPrice, poc)
        priceDiffPercent == Mul(Div(priceDiff, poc), R(100))
    IN IF atr # Null /\ Truthy(atr[1]) /\ Gt(atr[1], R(0)) /\ ~isNaN(atr[1]) /\ isFinite(atr[1])
       THEN
         LET atrPercent == Mul(Div(atr[1], currentPrice), R(100))
             atrMultiplier == Div(MathAbs(priceDiff), atr[1])
             confidence == IF Gt(atrPercent, R(5)) THEN Frac(70, 100)
                           ELSE IF Gt(atrPercent, R(3)) THEN Frac(85, 100)
                           ELSE R(1)
             baseScore ==
               IF Lt(priceDiff, R(0))
               THEN IF Ge(atrMultiplier, Frac(3, 2)) THEN Frac(90, 100)
                    ELSE IF Ge(atrMultiplier, R(1)) THEN Frac(75, 100)
                    ELSE IF Ge(atrMultiplier, Frac(1, 2)) THEN Frac(60, 100)
                    ELSE Frac(50, 100)
               ELSE IF Ge(atrMultiplier, Frac(3, 2)) THEN Frac(10, 100)
                    ELSE IF Ge(atrMultiplier, R(1)) THEN Frac(25, 100)
                    ELSE IF Ge(atrMultiplier, Frac(1, 2)) THEN Frac(40, 100)
                    ELSE Frac(50, 100)
         IN Mul(baseScore, confidence)
       ELSE IF Lt(priceDiffPercent, R(0))
       THEN IF Le(priceDiffPercent, R(-5)) THEN Frac(90, 100)
            ELSE IF Le(priceDiffPercent, R(-3)) THEN Frac(75, 100)
            ELSE IF Le(priceDiffPercent, R(-1)) THEN Frac(60, 100)
            ELSE Frac(50, 100)
       ELSE IF Ge(priceDiffPercent, R(5)) THEN Frac(10, 100)
            ELSE IF Ge(priceDiffPercent, R(3)) THEN Frac(25, 100)
            ELSE IF Ge(priceDiffPercent, R(1)) THEN Frac(40, 100)
            ELSE Frac(50, 100)

\* The quote volume at which the volume score saturates, 10_000_000_000,
\* counted like every quote volume of this model in units of 10^6.
VolumeSaturation == 10000

\* A plausible slip: the sub-score is taken from the rate of the whole funding
\* period, not from the hourly rate.
fundingScore_PeriodRate(symbol, fundingDict, now) ==
  LET fundingInfo == IF symbol \in DOMAIN fundingDict
                     THEN fundingDict[symbol]
                     ELSE [lastFundingRate |-> R(0), nextFundingTime |-> 0,
                           fundingIntervalHours |-> Null]
      fundingRatePercent == Mul(fundingInfo.lastFundingRate, R(100))
  IN MathMin(MathMax(Div(Add(fundingRatePercent, Frac(15, 100)), Frac(3, 10)), R(0)), R(1))

\* fundingDict: a function from the symbols it knows to FundingInfo.
fundingScore(symbol, fundingDict, now) ==
  LET fundingInfo == IF symbol \in DOMAIN fundingDict
                     THEN fundingDict[symbol]
                     ELSE [lastFundingRate |-> R(0), nextFundingTime |-> 0,
                           fundingIntervalHours |-> Null]
      hourlyFundingRate == calculateHourlyFundingRate(fundingInfo.lastFundingRate,
                                                      fundingInfo.nextFundingTime,
                                                      fundingInfo.fundingIntervalHours, now)
      hourlyFundingRatePercent == Mul(hourlyFundingRate, R(100))
  IN MathMin(MathMax(Div(Add(hourlyFundingRatePercent, Frac(15, 100)), Frac(3, 10)), R(0)), R(1))

rsiScore(rsi) == MathMin(MathMax(Div(Sub(rsi, R(25)), R(50)), R(0)), R(1))

\* A plausible slip: the saturation at 1 is left out.
volumeScore_Unclamped(ticker) ==
  LET quoteVolume == parseFloat(IF ticker.quoteVolume = <<>> THEN <<"0">> ELSE ticker.quoteVolume)
  IN Div(quoteVolume, R(VolumeSaturation))

volumeScore(ticker) ==
  LET quoteVolume == parseFloat(IF ticker.quoteVolume = <<>> THEN <<"0">> ELSE ticker.quoteVolume)
  IN MathMin(Div(quoteVolume, R(VolumeSaturation)), R(1))

\* A plausible slip: an absent ADX result is scored like a sideways market.
adxScore_SidewaysDefault(adxResult) ==
  IF adxResult = Null THEN Frac(4, 10)
  ELSE LET adx == adxResult[1]
       IN IF adx.trend_direction = "down" /\ adx.trend_strength = "strong" THEN Frac(9, 10)
          ELSE IF adx.trend_direction = "down" /\ adx.trend_strength = "moderate" THEN Frac(7, 10)
          ELSE IF adx.trend_direction = "down" THEN Frac(6, 10)
          ELSE IF adx.trend_direction = "up" /\ adx.trend_strength = "strong" THEN Frac(1, 10)
          ELSE IF adx.trend_direction = "up" THEN Frac(3, 10)
          ELSE IF adx.trend_strength = "weak" THEN Frac(4, 10)
          ELSE Frac(5, 10)

\* adxResult: Null (undefined) or Some(ADXResult).
adxScore(adxResult) ==
  IF adxResult = Null THEN Frac(5, 10)
  ELSE LET adx == adxResult[1]
       IN IF adx.trend_direction = "down" /\ adx.trend_strength = "strong" THEN Frac(9, 10)
          ELSE IF adx.trend_direction = "down" /\ adx.trend_strength = "moderate" THEN Frac(7, 10)
          ELSE IF adx.trend_direction = "down" THEN Frac(6, 10)
          ELSE IF adx.trend_direction = "up" /\ adx.trend_strength = "strong" THEN Frac(1, 10)
          ELSE IF adx.trend_direction = "up" THEN Frac(3, 10)
          ELSE IF adx.trend_strength = "weak" THEN Frac(4, 10)
          ELSE Frac(5, 10)

currentPrice(ticker, klines) ==
  IF Len(klines) > 0 THEN klines[Len(klines)].close ELSE parseFloat(ticker.lastPrice)

calculateShortScore(symbol, ticker, fundingDict, klines, rsi, adxResult, atr, ma50Data, ma200Data, vpvrPOC, now) ==
  LET maScore == calculateMAScore(currentPrice(ticker, klines), ma50Data, ma200Data)
      vpvrScore == calculateVPVRScore(currentPrice(ticker, klines), vpvrPOC, atr)
      totalScore ==
        Add(Add(Add(Add(Add(Mul(vpvrScore, Frac(11, 100)),
                            Mul(adxScore(adxResult), Frac(15, 100))),
                        Mul(rsiScore(rsi), Frac(15, 100))),
                    Mul(fundingScore(symbol, fundingDict, now), Frac(14, 100))),
                Mul(maScore, Frac(15, 100))),
            Mul(volumeScore(ticker), Frac(5, 100)))
  IN Mul(totalScore, R(100))

\* A plausible slip: the list is left in the order of the pushes.
SortByScoreDesc_PushOrder(scores) == scores

\* Array.prototype.sort with (a, b) => b.short_score - a.short_score.
RECURSIVE SortByScoreDesc(_)
SortByScoreDesc(scores) ==
  IF Len(scores) <= 1 THEN scores
  ELSE LET rest == SortByScoreDesc(SubSeq(scores, 1, Len(scores) - 1))
           last == scores[Len(scores)]
           k == Cardinality({i \in DOMAIN rest : Ge(rest[i].short_score, last.short_score)})
       IN SubSeq(rest, 1, k) \o <<last>> \o SubSeq(rest, k + 1, Len(rest))

\* The timing step of fetchData: every score gains 20% of the timing score,
\* capped at 100, and the list is sorted again.
AdjustScores(scores, timingScore) ==
  SortByScoreDesc([i \in DOMAIN scores |->
     LET base == scores[i].short_score
     IN [scores[i] EXCEPT !.short_score =
           MathMin(R(100), Add(base, Mul(Frac(20, 100), Mul(timingScore, R(100)))))]])

\* Inputs of the scorer.
Symbol == "COINUSDT"

FundingCases ==
  { [fundingDict |-> <<>>, now |-> 0],
    [fundingDict |-> [s \in {Symbol} |-> [lastFundingRate |-> Frac(-2, 100), nextFundingTime |-> 0,
                                           fundingIntervalHours |-> Null]], now |-> 0],
    [fundingDict |-> [s \in {Symbol} |-> [lastFundingRate |-> Frac(1, 1000), nextFundingTime |-> 3600000,
                                           fundingIntervalHours |-> Null]], now |-> 0],
    [fundingDict |-> [s \in {Symbol} |-> [lastFundingRate |-> Frac(1, 1000), nextFundingTime |-> 10800000,
                                           fundingIntervalHours |-> Null]], now |-> 0],
    [fundingDict |-> [s \in {Symbol} |-> [lastFundingRate |-> Frac(2, 100), nextFundingTime |-> 3600000,
                                           fundingIntervalHours |-> Some(R(4))]], now |-> 7200000] }

RsiCases == {R(0), R(60), R(100)}

QuoteVolumes == {<<>>, <<"5", "0", "0", "0">>, <<"2", "0", "0", "0", "0">>, <<"-", "5">>}

LastPrice == <<"9", "7", ".", "5">>

AdxCases ==
  {Null} \cup
  {Some([adx |-> R(30), plusDI |-> R(20), minusDI |-> R(20),
         trend_strength |-> pair[2], trend_direction |-> pair[1]]) :
     pair \in {<<"down", "strong">>, <<"down", "weak">>, <<"up", "strong">>, <<"neutral", "weak">>}}

KlineCases ==
  {<<>>, <<Kline(0, R(94), R(94), R(94), R(1))>>, <<Kline(0, R(106), R(106), R(106), R(1))>>}

AtrCases == {Null, Some(R(2)), Some(R(4))}

PocCases ==
  {Null,
   Some([poc |-> R(100), value_area_high |-> R(110), value_area_low |-> R(90),
         total_volume |-> R(1)])}

MaCases ==
  {[ma50Data |-> Null, ma200Data |-> Null]} \cup
  {[ma50Data |-> Some(<<[time |-> 0, value |-> R(pair[1])]>>),
    ma200Data |-> Some(<<[time |-> 0, value |-> R(pair[2])]>>)] :
     pair \in {<<100, 110>>, <<110, 100>>}}

TimingScores == {R(0), Frac(1, 2), R(1)}

\* Another coin of the same scan, already scored.
PeerCoin == [symbol |-> "PEERUSDT", short_score |-> R(50)]

InitScore ==
  /\ fn = None
  /\ ret = None
  /\ \E f \in FundingCases, rsi \in RsiCases, qv \in QuoteVolumes, adx \in AdxCases :
       \E klines \in KlineCases, atr \in AtrCases, poc \in PocCases, ma \in MaCases :
         args = [symbol |-> Symbol,
                 ticker |-> [symbol |-> Symbol, quoteVolume |-> qv, lastPrice |-> LastPrice],
                 fundingDict |-> f.fundingDict, now |-> f.now,
                 klines |-> klines, rsi |-> rsi, adxResult |-> adx, atr |-> atr,
                 ma50Data |-> ma.ma50Data, ma200Data |-> ma.ma200Data, vpvrPOC |-> poc]

ScoreOf(a) ==
  calculateShortScore(a.symbol, a.ticker, a.fundingDict, a.klines, a.rsi, a.adxResult,
                      a.atr, a.ma50Data, a.ma200Data, a.vpvrPOC, a.now)

\* fetchData scores one coin.
CallShortScore ==
  /\ fn = None
  /\ fn' = "calculateShortScore"
  /\ ret' = ScoreOf(args)
  /\ UNCHANGED args

\* fetchData has pushed the coin next to the other coins of the scan, sorted
\* the list, and now folds the market timing score into every score.
AdjustForTiming ==
  /\ fn = "calculateShortScore"
  /\ \E timingScore \in TimingScores :
       LET scores == SortByScoreDesc(<<[symbol |-> args.symbol, short_score |-> ret], PeerCoin>>)
       IN /\ args' = [coin |-> args, timingScore |-> timingScore]
          /\ ret' = AdjustScores(scores, timingScore)
  /\ fn' = "fetchData"

NextScore == CallShortScore \/ AdjustForTiming

SpecScore == InitScore /\ [][NextScore]_vars

\* The inputs C1 speaks of: the quote volume read from the ticker is a
\* finite number >= 0 (every other number of the inputs above is finite).
FiniteInputs(a) ==
  LET quoteVolume == parseFloat(IF a.ticker.quoteVolume = <<>> THEN <<"0">> ELSE a.ticker.quoteVolume)
  IN isFinite(quoteVolume) /\ Ge(quoteVolume, R(0)) /\ isFinite(a.rsi)
     /\ isFinite(currentPrice(a.ticker, a.klines))

InUnit(x) == Ge(x, R(0)) /\ Le(x, R(1))

InPercent(x) == Ge(x, R(0)) /\ Le(x, R(100))

SubScores(a) ==
  <<calculateVPVRScore(currentPrice(a.ticker, a.klines), a.vpvrPOC, a.atr),
    adxScore(a.adxResult),
    rsiScore(a.rsi),
    fundingScore(a.symbol, a.fundingDict, a.now),
    calculateMAScore(currentPrice(a.ticker, a.klines), a.ma50Data, a.ma200Data),
    volumeScore(a.ticker)>>

\* C1: for finite inputs with quoteVolume >= 0 each of the six sub-scores
\* (VPVR, ADX, RSI, funding, MA, volume) is in [0,1], calculateShortScore
\* returns a value in [0,100], and every score fetchData writes after the
\* timing step, min(100, base + 0.20 * timingScore * 100), is in [0,100].
C1_ScoreRanges ==
  /\ (fn = "calculateShortScore" /\ FiniteInputs(args)) =>
       /\ \A i \in 1..6 : InUnit(SubScores(args)[i])
       /\ InPercent(ret)
  /\ (fn = "fetchData" /\ FiniteInputs(args.coin)) =>
       /\ \A i \in 1..6 : InUnit(SubScores(args.coin)[i])
       /\ \A i \in DOMAIN ret : InPercent(ret[i].short_score)

\* C1 witness: a coin whose quote volume lies above the saturation point
\* and whose sub-scores are all favourable, after the timing step with
\* timing score 1 has lifted its score to 85 or more.
C1_Witness ==
  /\ fn = "fetchData"
  /\ FiniteInputs(args.coin)
  /\ args.timingScore = R(1)
  /\ Gt(parseFloat(args.coin.ticker.quoteVolume), R(VolumeSaturation))
  /\ \E i \in DOMAIN ret :
       /\ ret[i].symbol = Symbol
       /\ Ge(ret[i].short_score, R(85))
       /\ ret[i].short_score = Add(ScoreOf(args.coin), R(20))

----------------------------------------------------------------------------
(* calculateSupportResistance and calculateStopLoss *)

\* A plausible slip: the levels are taken over the whole series.
calculateSupportResistance_WholeSeries(klines, lookbackPeriod) ==
  IF Len(klines) < lookbackPeriod
  THEN [resistance |-> R(0), support |-> R(0), pivot |-> R(0),
        resistance_strength |-> R(0), support_strength |-> R(0), current_price |-> R(0)]
  ELSE
    LET highs == Arr([i \in DOMAIN klines |-> klines[i].high])
        lows == Arr([i \in DOMAIN klines |-> klines[i].low])
        avgHigh == Div(SumR(highs), R(Len(highs)))
        resistanceCandidates == SelectSeq(highs, LAMBDA h : Gt(h, Mul(avgHigh, Frac(98, 100))))
        avgLow == Div(SumR(lows), R(Len(lows)))
        supportCandidates == SelectSeq(lows, LAMBDA l : Lt(l, Mul(avgLow, Frac(102, 100))))
    IN [resistance |-> IF Len(resistanceCandidates) > 0 THEN MaxOf(resistanceCandidates)
                       ELSE MaxOf(highs),
        support |-> IF Len(supportCandidates) > 0 THEN MinOf(supportCandidates)
                    ELSE MinOf(lows),
        pivot |-> klines[Len(klines)].close,
        resistance_strength |-> IF Len(resistanceCandidates) > 0
                                THEN Mul(Div(R(Len(resistanceCandidates)), R(Len(highs))), R(100))
                                ELSE R(50),
        support_strength |-> IF Len(supportCandidates) > 0
                             THEN Mul(Div(R(Len(supportCandidates)), R(Len(lows))), R(100))
                             ELSE R(50),
        current_price |-> klines[Len(klines)].close]

calculateSupportResistance(klines, lookbackPeriod) ==
  IF Len(klines) < lookbackPeriod
  THEN [resistance |-> R(0), support |-> R(0), pivot |-> R(0),
        resistance_strength |-> R(0), support_strength |-> R(0), current_price |-> R(0)]
  ELSE
    LET recentKlines == Slice(klines, -lookbackPeriod)
        highs == Arr([i \in DOMAIN recentKlines |-> recentKlines[i].high])
        lows == Arr([i \in DOMAIN recentKlines |-> recentKlines[i].low])
        closes == Arr([i \in DOMAIN recentKlines |-> recentKlines[i].close])
        current_price == closes[Len(closes)]
        maxHigh == MaxOf(highs)
        avgHigh == Div(SumR(highs), R(Len(highs)))
        resistanceCandidates == SelectSeq(highs, LAMBDA h : Gt(h, Mul(avgHigh, Frac(98, 100))))
        resistance == IF Len(resistanceCandidates) > 0 THEN MaxOf(resistanceCandidates)
                      ELSE maxHigh
        resistanceStrength ==
          IF Len(resistanceCandidates) > 0
          THEN Mul(Div(R(Len(resistanceCandidates)), R(Len(highs))), R(100))
          ELSE R(50)
        minLow == MinOf(lows)
        avgLow == Div(SumR(lows), R(Len(lows)))
        supportCandidates == SelectSeq(lows, LAMBDA l : Lt(l, Mul(avgLow, Frac(102, 100))))
        support == IF Len(supportCandidates) > 0 THEN MinOf(supportCandidates) ELSE minLow
        supportStrength ==
          IF Len(supportCandidates) > 0
          THEN Mul(Div(R(Len(supportCandidates)), R(Len(lows))), R(100))
          ELSE R(50)
        pivot ==
          IF Len(recentKlines) >= 2
          THEN LET prev == recentKlines[Len(recentKlines) - 1]
               IN Div(Add(Add(prev.high, prev.low), prev.close), R(3))
          ELSE current_price
    IN [resistance |-> resistance, support |-> support, pivot |-> pivot,
        resistance_strength |-> resistanceStrength,
        support_strength |-> supportStrength,
        current_price |-> current_price]

\* The levels of either position type from the stop, the target, the risk
\* and the reward (lines 476-492).
StopLossInfoOf(short, current_price, stopLoss, targetPrice, risk, reward) ==
  LET riskRewardRatio == IF Gt(risk, R(0)) /\ Gt(reward, R(0)) THEN Div(reward, risk) ELSE R(0)
      riskPercentCalc ==
        IF short THEN Mul(Div(Sub(stopLoss, current_price), current_price), R(100))
        ELSE Mul(Div(Sub(current_price, stopLoss), current_price), R(100))
      rewardPercentCalc ==
        IF short THEN Mul(Div(Sub(current_price, targetPrice), current_price), R(100))
        ELSE Mul(Div(Sub(targetPrice, current_price), current_price), R(100))
  IN [stop_loss |-> stopLoss, target_price |-> targetPrice,
      risk_reward_ratio |-> riskRewardRatio,
      risk_percent |-> riskPercentCalc, reward_percent |-> rewardPercentCalc]

\* A plausible slip: the stop ignores the ATR-based level.
calculateStopLoss_ResistanceOnly(supportResistance, positionType, atr) ==
  LET current_price == supportResistance.current_price
      stopLoss == Mul(supportResistance.resistance, Frac(102, 100))
      targetPrice == Mul(supportResistance.support, Frac(101, 100))
  IN StopLossInfoOf(TRUE, current_price, stopLoss, targetPrice,
                    Sub(stopLoss, current_price), Sub(current_price, targetPrice))

\* positionType: Null (default 'short') or Some("short" / "long");
\* atr: Null (default 0) or Some(number).
calculateStopLoss(supportResistance, positionType, atr) ==
  LET current_price == supportResistance.current_price
      resistance == supportResistance.resistance
      support == supportResistance.support
      position == IF positionType = Null THEN "short" ELSE positionType[1]
      atrValue == IF atr = Null THEN R(0) ELSE atr[1]
  IN IF position = "short"
     THEN LET baseStopLoss == Mul(resistance, Frac(102, 100))
              atrBasedStopLoss == Add(current_price, Mul(atrValue, Frac(15, 10)))
              stopLoss == MathMax(baseStopLoss, atrBasedStopLoss)
              targetPrice == Mul(support, Frac(101, 100))
          IN StopLossInfoOf(TRUE, current_price, stopLoss, targetPrice,
                            Sub(stopLoss, current_price), Sub(current_price, targetPrice))
     ELSE LET baseStopLoss == Mul(support, Frac(98, 100))
              atrBasedStopLoss == Sub(current_price, Mul(atrValue, Frac(15, 10)))
              stopLoss == MathMin(baseStopLoss, atrBasedStopLoss)
              targetPrice == Mul(resistance, Frac(99, 100))
          IN StopLossInfoOf(FALSE, current_price, stopLoss, targetPrice,
                            Sub(current_price, stopLoss), Sub(targetPrice, current_price))

\* Bounds of the level inputs.
MaxSrLen == 3
MaxLookback == 3

\* Candles as (high, low, close) with low <= close <= high, one of them
\* with all prices 0.
SrCandles ==
  {Kline(0, R(x[1]), R(x[2]), R(x[3]), R(1)) :
     x \in {<<0, 0, 0>>, <<1, 1, 1>>, <<2, 2, 2>>, <<2, 0, 1>>, <<2, 1, 2>>, <<3, 1, 1>>}}

\* Levels that do not come from candles: the scenario of the specification
\* (resistance 105, support 95, price 100), and a price above its resistance.
GivenLevels ==
  {[resistance |-> R(105), support |-> R(95), pivot |-> R(100),
    resistance_strength |-> R(50), support_strength |-> R(50), current_price |-> R(100)],
   [resistance |-> R(90), support |-> R(95), pivot |-> R(100),
    resistance_strength |-> R(50), support_strength |-> R(50), current_price |-> R(100)]}

PositionTypes == {Null, Some("short"), Some("long")}

StopAtrs == {Null, Some(R(0)), Some(R(10))}

InitLevels ==
  /\ fn = None
  /\ ret = None
  /\ \E n \in 0..MaxSrLen, lookbackPeriod \in 1..MaxLookback :
       \E klines \in [1..n -> SrCandles] :
         args = [klines |-> klines, lookbackPeriod |-> lookbackPeriod]

CallSupportResistance ==
  /\ fn = None
  /\ fn' = "calculateSupportResistance"
  /\ ret' = calculateSupportResistance(args.klines, args.lookbackPeriod)
  /\ UNCHANGED args

\* The stop of a position, from the levels just computed or from given ones.
CallStopLoss ==
  /\ fn = "calculateSupportResistance"
  /\ \E sr \in {ret} \cup GivenLevels, positionType \in PositionTypes, atr \in StopAtrs :
       /\ args' = [supportResistance |-> sr, positionType |-> positionType, atr |-> atr]
       /\ ret' = calculateStopLoss(sr, positionType, atr)
  /\ fn' = "calculateStopLoss"

NextLevels == CallSupportResistance \/ CallStopLoss

SpecLevels == InitLevels /\ [][NextLevels]_vars

ShortStopDone ==
  /\ fn = "calculateStopLoss"
  /\ args.positionType \in {Null, Some("short")}

\* C12: for a short position stop_loss is the larger of resistance * 1.02
\* and current_price + 1.5 * atr, target_price is support * 1.01, and
\* risk_reward_ratio is (current_price - target_price) / (stop_loss -
\* current_price) when both differences are positive and 0 otherwise;
\* resistance 105, support 95, price 100 and ATR 10 give stop 115 and
\* target 95.95.
C12_StopLoss ==
  ShortStopDone =>
    LET sr == args.supportResistance
        atr == IF args.atr = Null THEN R(0) ELSE args.atr[1]
        byResistance == Mul(sr.resistance, Frac(102, 100))
        byAtr == Add(sr.current_price, Mul(Frac(3, 2), atr))
        risk == Sub(ret.stop_loss, sr.current_price)
        reward == Sub(sr.current_price, ret.target_price)
    IN /\ ret.stop_loss \in {byResistance, byAtr}
       /\ Ge(ret.stop_loss, byResistance) /\ Ge(ret.stop_loss, byAtr)
       /\ ret.target_price = Mul(sr.support, Frac(101, 100))
       /\ ret.risk_reward_ratio =
            (IF Gt(risk, R(0)) /\ Gt(reward, R(0)) THEN Div(reward, risk) ELSE R(0))
       /\ (sr.resistance = R(105) /\ sr.support = R(95) /\ sr.current_price = R(100)
           /\ atr = R(10)) =>
            ret.stop_loss = R(115) /\ ret.target_price = Frac(9595, 100)

\* C12 witness: the scenario, where the ATR-based stop is the larger one
\* and both the risk and the reward are positive.
C12_Witness ==
  /\ ShortStopDone
  /\ args.supportResistance.resistance = R(105)
  /\ args.atr = Some(R(10))
  /\ ret.stop_loss = R(115)
  /\ ret.stop_loss # Mul(args.supportResistance.resistance, Frac(102, 100))
  /\ Gt(ret.risk_reward_ratio, R(0))

\* The candles calculateSupportResistance looks at: the last lookbackPeriod.
SrWindow == {i \in DOMAIN args.klines : i > Len(args.klines) - args.lookbackPeriod}

\* Levels were computed from enough candles, all prices positive.
LevelsDone ==
  /\ fn = "calculateSupportResistance"
  /\ Len(args.klines) >= args.lookbackPeriod
  /\ \A i \in DOMAIN args.klines :
       Gt(args.klines[i].high, R(0)) /\ Gt(args.klines[i].low, R(0))
       /\ Gt(args.klines[i].close, R(0))

RECURSIVE SumOver(_, _, _)
SumOver(klines, S, field) ==
  IF S = {} THEN R(0)
  ELSE LET i == CHOOSE x \in S : TRUE
       IN Add(klines[i][field], SumOver(klines, S \ {i}, field))

\* C13: with at least lookbackPeriod candles and positive prices,
\* resistance is the largest of the window's highs above 98% of their
\* average, which is the largest high of the window; support is the
\* smallest of the window's lows below 102% of their average, which is the
\* smallest low of the window; each strength is 100 * (qualifying bars) /
\* lookbackPeriod; identical bars give strengths of 100.
C13_Levels ==
  LevelsDone =>
    LET k == args.klines
        n == args.lookbackPeriod
        avgHigh == Div(SumOver(k, SrWindow, "high"), R(n))
        avgLow == Div(SumOver(k, SrWindow, "low"), R(n))
        touchHigh == {i \in SrWindow : Gt(k[i].high, Mul(avgHigh, Frac(98, 100)))}
        touchLow == {i \in SrWindow : Lt(k[i].low, Mul(avgLow, Frac(102, 100)))}
    IN /\ \E i \in touchHigh : ret.resistance = k[i].high
       /\ \A i \in SrWindow : Le(k[i].high, ret.resistance)
       /\ \E i \in touchLow : ret.support = k[i].low
       /\ \A i \in SrWindow : Ge(k[i].low, ret.support)
       /\ ret.resistance_strength = Div(R(100 * Cardinality(touchHigh)), R(n))
       /\ ret.support_strength = Div(R(100 * Cardinality(touchLow)), R(n))
       /\ (\A i, j \in SrWindow : k[i] = k[j]) =>
            ret.resistance_strength = R(100) /\ ret.support_strength = R(100)

\* C13 witness: a window shorter than the series that leaves out the
\* series' highest high, with a bar that does not qualify for resistance.
C13_Witness ==
  /\ LevelsDone
  /\ Len(args.klines) > args.lookbackPeriod
  /\ \E i \in DOMAIN args.klines : Gt(args.klines[i].high, ret.resistance)
  /\ Lt(ret.resistance_strength, R(100))
  /\ Gt(ret.resistance_strength, R(0))

----------------------------------------------------------------------------
(* calculateVWMAWithTime, calculateADX and the indicators on short input *)

\* Sum of close * volume / of volume over candles from..to.
RECURSIVE PriceVolumeSum(_, _, _)
PriceVolumeSum(klines, from, to) ==
  IF from > to THEN R(0)
  ELSE Add(PriceVolumeSum(klines, from, to - 1), Mul(klines[to].close, klines[to].volume))

RECURSIVE VolumeSum(_, _, _)
VolumeSum(klines, from, to) ==
  IF from > to THEN R(0)
  ELSE Add(VolumeSum(klines, from, to - 1), klines[to].volume)

\* The entries for the windows ending at candles period..i.
RECURSIVE VWMAEntries(_, _, _)
VWMAEntries(klines, period, i) ==
  IF i < period \/ i < 1 THEN <<>>
  ELSE LET priceVolumeSum == PriceVolumeSum(klines, i - period + 1, i)
           volumeSum == VolumeSum(klines, i - period + 1, i)
           before == VWMAEntries(klines, period, i - 1)
       IN IF Gt(volumeSum, R(0))
          THEN Append(before, [time |-> MathFloor(Div(R(klines[i].openTime), R(1000))),
                               value |-> Div(priceVolumeSum, volumeSum)])
          ELSE before

calculateVWMAWithTime(klines, period) ==
  IF Len(klines) < period THEN <<>> ELSE VWMAEntries(klines, period, Len(klines))

\* Wilder's smoothing of values[1..m], seeded with the sum of the first
\* `period` values.
RECURSIVE Wilder(_, _, _)
Wilder(values, period, m) ==
  IF m <= period THEN SumR(SubSeq(values, 1, MinInt(period, Len(values))))
  ELSE LET smoothed == Wilder(values, period, m - 1)
       IN IF isNaN(smoothed) THEN NaN
          ELSE Div(Add(Mul(smoothed, R(period - 1)), values[m]), R(period))

\* (di difference / di sum) * 100 from the three smoothed series.
DirectionalIndex(smoothedPlusDM, smoothedMinusDM, smoothedTR) ==
  LET plusDI == IF Gt(smoothedTR, R(0)) THEN Mul(Div(smoothedPlusDM, smoothedTR), R(100)) ELSE R(0)
      minusDI == IF Gt(smoothedTR, R(0)) THEN Mul(Div(smoothedMinusDM, smoothedTR), R(100)) ELSE R(0)
      diSum == Add(plusDI, minusDI)
  IN [plusDI |-> plusDI, minusDI |-> minusDI,
      dx |-> IF Gt(diSum, R(0)) THEN Mul(Div(MathAbs(Sub(plusDI, minusDI)), diSum), R(100))
             ELSE R(0)]

\* A plausible slip: +DM is every rise of the high, whatever the low does.
plusDMsOf_AnyRise(klines) ==
  Arr([i \in 1..(Len(klines) - 1) |->
         LET highDiff == Sub(klines[i + 1].high, klines[i].high)
         IN IF Gt(highDiff, R(0)) THEN highDiff ELSE R(0)])

\* plusDMs and minusDMs: one entry per candle after the first.
plusDMsOf(klines) ==
  Arr([i \in 1..(Len(klines) - 1) |->
         LET highDiff == Sub(klines[i + 1].high, klines[i].high)
             lowDiff == Sub(klines[i].low, klines[i + 1].low)
         IN IF Gt(highDiff, lowDiff) /\ Gt(highDiff, R(0)) THEN highDiff ELSE R(0)])

minusDMsOf(klines) ==
  Arr([i \in 1..(Len(klines) - 1) |->
         LET highDiff == Sub(klines[i + 1].high, klines[i].high)
             lowDiff == Sub(klines[i].low, klines[i + 1].low)
         IN IF Gt(lowDiff, highDiff) /\ Gt(lowDiff, R(0)) THEN lowDiff ELSE R(0)])

\* The body of calculateADX after its guard.
ADXOf(klines, period) ==
  LET n == Len(klines) - 1
      plusDMs == plusDMsOf(klines)
      minusDMs == minusDMsOf(klines)
      trueRanges == Arr([i \in 1..n |->
                           MathMax(MathMax(Sub(klines[i + 1].high, klines[i + 1].low),
                                           MathAbs(Sub(klines[i + 1].high, klines[i].close))),
                                   MathAbs(Sub(klines[i + 1].low, klines[i].close)))])
      last == DirectionalIndex(Wilder(plusDMs, period, n), Wilder(minusDMs, period, n),
                               Wilder(trueRanges, period, n))
      dxValues == Arr([m \in 1..MaxInt(n - period, 0) |->
                         DirectionalIndex(Wilder(plusDMs, period, period + m),
                                          Wilder(minusDMs, period, period + m),
                                          Wilder(trueRanges, period, period + m)).dx])
      adx == IF Len(dxValues) > 0 THEN Div(SumR(dxValues), R(Len(dxValues))) ELSE last.dx
  IN [adx |-> adx, plusDI |-> last.plusDI, minusDI |-> last.minusDI,
      trend_strength |-> IF Ge(adx, R(25)) THEN "strong"
                         ELSE IF Ge(adx, R(20)) THEN "moderate" ELSE "weak",
      trend_direction |-> IF Gt(last.plusDI, Add(last.minusDI, R(5))) THEN "up"
                          ELSE IF Gt(last.minusDI, Add(last.plusDI, R(5))) THEN "down"
                          ELSE "neutral"]

ADXDefault ==
  [adx |-> R(0), plusDI |-> R(0), minusDI |-> R(0),
   trend_strength |-> "weak", trend_direction |-> "neutral"]

\* A plausible slip: the guard asks for one period of candles, not two.
calculateADX_OnePeriodGuard(klines, period) ==
  IF Len(klines) < period THEN ADXDefault ELSE ADXOf(klines, period)

calculateADX(klines, period) ==
  IF Len(klines) < period * 2 THEN ADXDefault ELSE ADXOf(klines, period)

\* Bound of the short candle series.
MaxShortLen == 4

\* The window parameter: period of the indicators, lookback of the levels.
ShortPeriods == {1, 2}

\* Lengths around the fixed windows of the two seasonality analyses.
SeasonalLens == {6, 7, 23, 24}

\* <<high, low, close, volume>> of a candle: flat, wide, and without volume.
ShortCandles == {<<1, 1, 1, 1>>, <<3, 1, 2, 1>>, <<2, 0, 1, 0>>}

\* Candle cycles of the longer series: their true range is constant, which
\* keeps the smoothed ATR of analyzeWeeklyPattern a small fraction.
SeasonalCycles ==
  {<<(<<1, 1, 1, 1>>)>>, <<(<<3, 1, 2, 1>>), (<<3, 1, 1, 1>>)>>, <<(<<3, 1, 1, 0>>), (<<3, 1, 2, 1>>)>>}

\* Hourly candles opening at t0, taken in turn from `cycle`.
ShortKlines(t0, n, cycle) ==
  [i \in 1..n |->
     LET x == cycle[((i - 1) % Len(cycle)) + 1]
     IN Kline(t0 + (i - 1) * 3600000, R(x[1]), R(x[2]), R(x[3]), R(x[4]))]

InitShort ==
  /\ fn = None
  /\ ret = None
  /\ \E period \in ShortPeriods :
       \/ \E n \in 0..MaxShortLen : \E c \in [1..n -> ShortCandles] :
            args = [klines |-> ShortKlines(0, n, c), period |-> period]
       \/ \E n \in SeasonalLens, c \in SeasonalCycles :
            args = [klines |-> ShortKlines(0, n, c), period |-> period]

ClosesOf(klines) == [i \in 1..Len(klines) |-> klines[i].close]

ShortRSI ==
  /\ fn = None
  /\ fn' = "calculateRSI"
  /\ ret' = calculateRSI(ClosesOf(args.klines), args.period)
  /\ UNCHANGED args

ShortATR ==
  /\ fn = None
  /\ fn' = "calculateATR"
  /\ ret' = calculateATR(args.klines, args.period)
  /\ UNCHANGED args

ShortADX ==
  /\ fn = None
  /\ fn' = "calculateADX"
  /\ ret' = calculateADX(args.klines, args.period)
  /\ UNCHANGED args

ShortMA ==
  /\ fn = None
  /\ fn' = "calculateMAWithTime"
  /\ ret' = calculateMAWithTime(args.klines, args.period)
  /\ UNCHANGED args

ShortVWMA ==
  /\ fn = None
  /\ fn' = "calculateVWMAWithTime"
  /\ ret' = calculateVWMAWithTime(args.klines, args.period)
  /\ UNCHANGED args

ShortSupportResistance ==
  /\ fn = None
  /\ fn' = "calculateSupportResistance"
  /\ ret' = calculateSupportResistance(args.klines, args.period)
  /\ UNCHANGED args

ShortWeekly ==
  /\ fn = None
  /\ fn' = "analyzeWeeklyPattern"
  /\ ret' = analyzeWeeklyPattern(args.klines)
  /\ UNCHANGED args

ShortDayHour ==
  /\ fn = None
  /\ fn' = "analyzeDayHourPattern"
  /\ ret' = analyzeDayHourPattern(args.klines)
  /\ UNCHANGED args

NextShort ==
  \/ ShortRSI \/ ShortATR \/ ShortADX \/ ShortMA \/ ShortVWMA
  \/ ShortSupportResistance \/ ShortWeekly \/ ShortDayHour

SpecShort == InitShort /\ [][NextShort]_vars

SupportResistanceDefault ==
  [resistance |-> R(0), support |-> R(0), pivot |-> R(0),
   resistance_strength |-> R(0), support_strength |-> R(0), current_price |-> R(0)]

\* C14: an indicator given fewer candles than its minimum window returns its
\* neutral default: calculateRSI 50 below period + 1 prices, calculateATR 0
\* below period + 1 candles, calculateADX the all-zero weak neutral result
\* below 2 * period candles, calculateMAWithTime and calculateVWMAWithTime an
\* empty series below period candles, calculateSupportResistance all zeros
\* below lookback candles, analyzeWeeklyPattern null below 7 candles and
\* analyzeDayHourPattern null below 24 candles.
C14_NeutralDefaults ==
  LET n == Len(args.klines)
  IN /\ (fn = "calculateRSI" /\ n < args.period + 1) => ret = R(50)
     /\ (fn = "calculateATR" /\ n < args.period + 1) => ret = R(0)
     /\ (fn = "calculateADX" /\ n < 2 * args.period) => ret = ADXDefault
     /\ (fn = "calculateMAWithTime" /\ n < args.period) => ret = <<>>
     /\ (fn = "calculateVWMAWithTime" /\ n < args.period) => ret = <<>>
     /\ (fn = "calculateSupportResistance" /\ n < args.period)
          => ret = SupportResistanceDefault
     /\ (fn = "analyzeWeeklyPattern" /\ n < 7) => ret = Null
     /\ (fn = "analyzeDayHourPattern" /\ n < 24) => ret = Null

\* calculateADX on one period of moving candles, where the computation past
\* the guard would have reported a trend.
C14_Witness ==
  /\ fn = "calculateADX"
  /\ Len(args.klines) >= args.period
  /\ Len(args.klines) < 2 * args.period
  /\ ret = ADXDefault
  /\ ADXOf(args.klines, args.period) # ADXDefault

----------------------------------------------------------------------------
(* computeTimingScore and the scorer without its optional inputs *)

\* A plausible slip: the weekday is used as the row index unchanged.
dayHourDataIndex_Weekday(utcDay) == utcDay

dayHourDataIndex(utcDay) == IF utcDay = 0 THEN 6 ELSE utcDay - 1

\* dayMap of computeTimingScore, index 0 = Sunday.
TimingDayMap ==
  <<"sunday", "monday", "tuesday", "wednesday", "thursday", "friday", "saturday">>

\* weeklyPattern, dayHourPattern: Null or Some(pattern); kstNow: the instant
\* of the call in epoch milliseconds.
computeTimingScore(weeklyPattern, dayHourPattern, kstNow) ==
  IF weeklyPattern = Null \/ dayHourPattern = Null THEN Frac(1, 2)
  ELSE
    LET utcHour == getUTCHours(kstNow)
        utcDay == getUTCDay(kstNow)
        kstHour == (utcHour + 9) % 24
        kstDayOffset == IF utcHour + 9 >= 24 THEN 1 ELSE 0
        currentDay == (utcDay + kstDayOffset) % 7
        currentHour == kstHour
        dayKey == TimingDayMap[currentDay + 1]
        dayScore == weeklyPattern[1][dayKey].winRate
        di == dayHourDataIndex(currentDay)
        avgChange == dayHourPattern[1].data[di + 1][currentHour + 1].avgChange
        hourScore == MathMax(R(0), MathMin(R(1),
                       Sub(Frac(1, 2),
                           Mul(Frac(1, 4), MathMax(R(-2), MathMin(R(2), avgChange))))))
    IN Add(Mul(Frac(1, 2), dayScore), Mul(Frac(1, 2), hourScore))

\* Inputs: every optional input absent or present.
OptionalFunding ==
  {[fundingDict |-> <<>>, now |-> 0],
   [fundingDict |-> [s \in {Symbol} |-> [lastFundingRate |-> Frac(-2, 100), nextFundingTime |-> 0,
                                          fundingIntervalHours |-> Null]], now |-> 0]}

OptionalAdx ==
  {Null, Some([adx |-> R(30), plusDI |-> R(10), minusDI |-> R(30),
               trend_strength |-> "strong", trend_direction |-> "down"])}

OptionalAtr == {Null, Some(R(2))}

\* undefined, an empty series, or a series of one entry.
OptionalMa50 == {Null, Some(<<>>), Some(<<[time |-> 0, value |-> R(100)]>>)}

OptionalMa200 == {Null, Some(<<>>), Some(<<[time |-> 0, value |-> R(110)]>>)}

OptionalWeekly == {Null, PeerDaily}

OptionalDayHour == {Null, PeerUniform}

\* Instants of the timing call: Thursday 09:00 and Friday 00:00 in UTC+9.
TimingNows == {0, 54000000}

InitOptional ==
  /\ fn = None
  /\ ret = None
  /\ \E f \in OptionalFunding, adx \in OptionalAdx, atr \in OptionalAtr, poc \in PocCases :
       \E ma50 \in OptionalMa50, ma200 \in OptionalMa200, klines \in KlineCases :
         \E weekly \in OptionalWeekly, dayHour \in OptionalDayHour, kstNow \in TimingNows :
           args = [symbol |-> Symbol,
                   ticker |-> [symbol |-> Symbol, quoteVolume |-> <<"5", "0", "0", "0">>,
                               lastPrice |-> LastPrice],
                   fundingDict |-> f.fundingDict, now |-> f.now,
                   klines |-> klines, rsi |-> R(60), adxResult |-> adx, atr |-> atr,
                   ma50Data |-> ma50, ma200Data |-> ma200, vpvrPOC |-> poc,
                   weeklyPattern |-> weekly, dayHourPattern |-> dayHour, kstNow |-> kstNow]

\* fetchData scores the coin.
OptionalShortScore ==
  /\ fn = None
  /\ fn' = "calculateShortScore"
  /\ ret' = ScoreOf(args)
  /\ UNCHANGED args

\* fetchData computes the timing score from the two market patterns.
OptionalTimingScore ==
  /\ fn = "calculateShortScore"
  /\ fn' = "computeTimingScore"
  /\ ret' = [short_score |-> ret,
             timingScore |-> computeTimingScore(args.weeklyPattern, args.dayHourPattern,
                                                args.kstNow)]
  /\ UNCHANGED args

NextOptional == OptionalShortScore \/ OptionalTimingScore

SpecOptional == InitOptional /\ [][NextOptional]_vars

\* The funding dictionary of a call, with an entry of rate 0 for the symbol
\* when it has none.
WithZeroFunding(a) ==
  IF a.symbol \in DOMAIN a.fundingDict THEN a.fundingDict
  ELSE [s \in {a.symbol} |-> [lastFundingRate |-> R(0), nextFundingTime |-> 0,
                              fundingIntervalHours |-> Null]]

MaAbsent(a) ==
  \/ a.ma50Data = Null \/ a.ma200Data = Null
  \/ a.ma50Data = Some(<<>>) \/ a.ma200Data = Some(<<>>)

\* The weighted sum of calculateShortScore with 0.5 in the place of every
\* sub-score whose input is absent.
NeutralScore(a) ==
  LET price == currentPrice(a.ticker, a.klines)
      vpvr == IF a.vpvrPOC = Null THEN Frac(1, 2)
              ELSE calculateVPVRScore(price, a.vpvrPOC, a.atr)
      adx == IF a.adxResult = Null THEN Frac(1, 2) ELSE adxScore(a.adxResult)
      ma == IF MaAbsent(a) THEN Frac(1, 2)
            ELSE calculateMAScore(price, a.ma50Data, a.ma200Data)
      funding == fundingScore(a.symbol, WithZeroFunding(a), a.now)
  IN Mul(R(100),
         Add(Add(Add(Add(Add(Mul(vpvr, Frac(11, 100)), Mul(adx, Frac(15, 100))),
                         Mul(rsiScore(a.rsi), Frac(15, 100))),
                     Mul(funding, Frac(14, 100))),
                 Mul(ma, Frac(15, 100))),
             Mul(volumeScore(a.ticker), Frac(5, 100))))

ShortScoreOf(r) == IF fn = "calculateShortScore" THEN r ELSE r.short_score

\* C15: calculateShortScore scores an absent ADX result, a missing or empty
\* MA50 or MA200 series and a null POC (with or without ATR) with the neutral
\* sub-score 0.5 and a symbol missing from the funding dictionary with
\* funding rate 0; computeTimingScore returns 0.5 when either pattern is
\* null.
C15_NeutralFallbacks ==
  /\ fn \in {"calculateShortScore", "computeTimingScore"} =>
       /\ ShortScoreOf(ret) = NeutralScore(args)
       /\ args.adxResult = Null => adxScore(args.adxResult) = Frac(1, 2)
       /\ MaAbsent(args) =>
            calculateMAScore(currentPrice(args.ticker, args.klines), args.ma50Data,
                             args.ma200Data) = Frac(1, 2)
       /\ args.vpvrPOC = Null =>
            calculateVPVRScore(currentPrice(args.ticker, args.klines), args.vpvrPOC,
                               args.atr) = Frac(1, 2)
       /\ args.symbol \notin DOMAIN args.fundingDict =>
            fundingScore(args.symbol, args.fundingDict, args.now) = Frac(1, 2)
  /\ (fn = "computeTimingScore" /\ (args.weeklyPattern = Null \/ args.dayHourPattern = Null))
       => ret.timingScore = Frac(1, 2)

\* A coin scored without ADX result, with an empty MA50 series, without POC
\* but with ATR, and without funding entry; the weekly pattern is null and the
\* day-hour pattern is not.
C15_Witness ==
  /\ fn = "computeTimingScore"
  /\ args.adxResult = Null
  /\ args.ma50Data = Some(<<>>)
  /\ args.ma200Data # Null
  /\ args.vpvrPOC = Null
  /\ args.atr # Null
  /\ args.symbol \notin DOMAIN args.fundingDict
  /\ args.weeklyPattern = Null
  /\ args.dayHourPattern # Null
  /\ ret.timingScore = Frac(1, 2)
  /\ ret.short_score = NeutralScore(args)

----------------------------------------------------------------------------
(* Divisions by a price of zero *)

\* C16: calculateStopLoss never divides by zero: for every input, the
\* all-zero levels of a series shorter than the lookback included, its
\* risk_percent and reward_percent are finite numbers, never NaN or Infinity.
C16_FiniteStopLoss ==
  fn = "calculateStopLoss" =>
    /\ isFinite(ret.risk_percent)
    /\ isFinite(ret.reward_percent)

\* The levels of a series shorter than the lookback, stopped as a short
\* position with an ATR of 10: current_price is 0.
C16_FailingInput ==
  [supportResistance |-> calculateSupportResistance(<<>>, 1),
   positionType |-> Some("short"), atr |-> Some(R(10))]

----------------------------------------------------------------------------
(* One pass of ShortAnalysis.fetchData *)

\* The component state of a pass lives in `ret`: validTickers, the local
\* array scores, the loop index i, and the React state error, loading,
\* coinScores (Null until setCoinScores), marketWeeklyPattern and
\* marketDayHourPattern; weeklyInput and dayHourInput record the symbols
\* whose per-symbol patterns were handed to the two market aggregations.

\* if (!klines || klines.length < 14)
MinCandles == 14

\* .slice(0, 10) of the tickers sorted by quote volume.
TopVolumeCount == 10

DigitChars == <<"0", "1", "2", "3", "4", "5", "6", "7", "8", "9">>

\* The decimal string of a natural number, as the exchange sends numbers.
RECURSIVE DecimalOf(_)
DecimalOf(n) ==
  IF n < 10 THEN <<DigitChars[n + 1]>>
  ELSE DecimalOf(n \div 10) \o <<DigitChars[(n % 10) + 1]>>

\* Array.prototype.sort with (a, b) => b.key - a.key: stable, descending.
RECURSIVE SortByKeyDesc(_)
SortByKeyDesc(keyed) ==
  IF Len(keyed) <= 1 THEN keyed
  ELSE LET rest == SortByKeyDesc(SubSeq(keyed, 1, Len(keyed) - 1))
           last == keyed[Len(keyed)]
           k == Cardinality({i \in DOMAIN rest : Ge(rest[i].key, last.key)})
       IN SubSeq(rest, 1, k) \o <<last>> \o SubSeq(rest, k + 1, Len(rest))

Range(seq) == {seq[i] : i \in DOMAIN seq}

\* tickers.filter(trading && priceChangePercent > 0).sort(by
\* priceChangePercent, descending).slice(0, targetCount)
selectTickers(tickers, tradingSymbols, targetCount) ==
  LET gainers == SelectSeq(tickers, LAMBDA t : t.symbol \in tradingSymbols
                                               /\ Gt(parseFloat(t.priceChangePercent), R(0)))
      sorted == SortByKeyDesc([i \in DOMAIN gainers |->
                                 [item |-> gainers[i],
                                  key |-> parseFloat(gainers[i].priceChangePercent)]])
  IN Arr([i \in 1..MinInt(targetCount, Len(sorted)) |-> sorted[i].item])

\* A plausible slip: the volume ranking is taken over every ticker, trading
\* or not.
top10ByVolume_EveryTicker(tickers, tradingSymbols) ==
  LET sorted == SortByKeyDesc([i \in DOMAIN tickers |->
                                 [item |-> tickers[i],
                                  key |-> parseFloat(tickers[i].quoteVolume)]])
  IN Arr([i \in 1..MinInt(TopVolumeCount, Len(sorted)) |-> sorted[i].item.symbol])

top10ByVolume(tickers, tradingSymbols) ==
  LET trading == SelectSeq(tickers, LAMBDA t : t.symbol \in tradingSymbols)
      sorted == SortByKeyDesc([i \in DOMAIN trading |->
                                 [item |-> trading[i],
                                  key |-> parseFloat(trading[i].quoteVolume)]])
  IN Arr([i \in 1..MinInt(TopVolumeCount, Len(sorted)) |-> sorted[i].item.symbol])

\* The hourly candles of a symbol that has `count` of them.
FetchedKlines(count) == [i \in 1..count |-> Kline(i * 3600000, R(94), R(94), R(94), R(1))]

\* The state after Promise.all of the three lists has resolved.
startFetch(a) ==
  [validTickers |-> selectTickers(a.tickers, a.tradingSymbols, a.targetCount),
   scores |-> <<>>, i |-> 0, error |-> Null, loading |-> TRUE, coinScores |-> Null,
   marketWeeklyPattern |-> Null, marketDayHourPattern |-> Null,
   weeklyInput |-> <<>>, dayHourInput |-> <<>>, timingScore |-> Null]

\* An exception that reaches the outer catch: setError, then the finally
\* block.
failPass(st) == [st EXCEPT !.error = Some("error"), !.loading = FALSE]

\* The CoinScore pushed for a ticker (the fields not read by the pass are
\* left out). fetchData passes vwma100Data in the place of vpvrPOC, a value
\* without a poc field.
coinScoreOf(ticker, a) ==
  LET data == a.fetch[ticker.symbol]
      klines == FetchedKlines(data.klines[1])
  IN [symbol |-> ticker.symbol,
      short_score |-> calculateShortScore(ticker.symbol, ticker, a.fundingDict, klines,
                                          data.rsi, Null, Null, Null, Null, Null, 0),
      rsi |-> data.rsi]

\* A plausible slip: the loop body has no try / catch of its own, and an
\* exception for one symbol ends the pass in the outer catch.
processTicker_NoInnerCatch(st, a) ==
  LET ticker == st.validTickers[st.i + 1]
      data == a.fetch[ticker.symbol]
  IN IF data.klines = Null THEN [st EXCEPT !.i = @ + 1]
     ELSE IF data.klines[1] < MinCandles THEN [st EXCEPT !.i = @ + 1]
     ELSE IF data.throws THEN failPass(st)
     ELSE [st EXCEPT !.i = @ + 1, !.scores = Append(@, coinScoreOf(ticker, a))]

\* One iteration of the loop over validTickers.
processTicker(st, a) ==
  LET ticker == st.validTickers[st.i + 1]
      data == a.fetch[ticker.symbol]
  IN IF data.klines = Null THEN [st EXCEPT !.i = @ + 1]
     ELSE IF data.klines[1] < MinCandles THEN [st EXCEPT !.i = @ + 1]
     ELSE IF data.throws THEN [st EXCEPT !.i = @ + 1]
     ELSE [st EXCEPT !.i = @ + 1, !.scores = Append(@, coinScoreOf(ticker, a))]

\* The sort before the timing step, the volume ranking, and the weekly try
\* block.
analyzeWeeklyStep(st, a) ==
  LET sorted == SortByScoreDesc(st.scores)
      top == top10ByVolume(a.tickers, a.tradingSymbols)
      altcoinsForPattern == SelectSeq(sorted, LAMBDA coin : coin.symbol \notin Range(top))
      weeklyPatterns == Arr([i \in DOMAIN altcoinsForPattern |->
                               [symbol |-> altcoinsForPattern[i].symbol,
                                pattern |-> a.weekly[altcoinsForPattern[i].symbol]]])
      market == analyzeMarketWeeklyPattern(Arr([i \in DOMAIN weeklyPatterns |->
                                                  weeklyPatterns[i].pattern]))
  IN [st EXCEPT !.scores = sorted,
                !.weeklyInput = Arr([i \in DOMAIN weeklyPatterns |-> weeklyPatterns[i].symbol]),
                !.marketWeeklyPattern = IF a.weeklyFails THEN Null ELSE market]

\* The day-hour try block with the timing step.
analyzeDayHourStep(st, a) ==
  LET top == top10ByVolume(a.tickers, a.tradingSymbols)
      altcoinsForPattern == SelectSeq(st.scores, LAMBDA coin : coin.symbol \notin Range(top))
      dayHourPatterns == Arr([i \in DOMAIN altcoinsForPattern |->
                                [symbol |-> altcoinsForPattern[i].symbol,
                                 pattern |-> a.dayHour[altcoinsForPattern[i].symbol]]])
      market == analyzeMarketDayHourPattern(Arr([i \in DOMAIN dayHourPatterns |->
                                                   dayHourPatterns[i].pattern]))
      timingScore == computeTimingScore(st.marketWeeklyPattern, market, a.now)
      input == Arr([i \in DOMAIN dayHourPatterns |-> dayHourPatterns[i].symbol])
  IN IF a.dayHourFails THEN [st EXCEPT !.dayHourInput = input]
     ELSE [st EXCEPT !.dayHourInput = input,
                     !.marketDayHourPattern = market,
                     !.timingScore = Some(timingScore),
                     !.scores = SortByScoreDesc([i \in DOMAIN st.scores |->
                        [st.scores[i] EXCEPT !.short_score =
                           MathMin(R(100), Add(@, Mul(Frac(20, 100), Mul(timingScore, R(100)))))]])]

\* setCoinScores([...scores]) and the finally block.
publish(st) == [st EXCEPT !.coinScores = Some(st.scores), !.loading = FALSE]

\* Bound of the number of coins asked for.
MaxCoins == 3

\* The tickers of the exchange, quote volumes in units of 10^6: N1 is not
\* trading, T1..T9 and L1 are the ten trading symbols of highest volume, L2 and
\* L3 follow. Only L1, L2 and L3 can be gainers.
FetchTicker(symbol, volume, change) ==
  [symbol |-> symbol, quoteVolume |-> DecimalOf(volume), priceChangePercent |-> change,
   lastPrice |-> LastPrice]

Candidates == {"L1", "L2", "L3"}

Loss == <<"-", "1">>

TickersOf(gainers) ==
  <<FetchTicker("L3", 300, IF "L3" \in gainers THEN <<"5">> ELSE Loss),
    FetchTicker("T1", 9000, Loss), FetchTicker("T2", 8000, Loss),
    FetchTicker("L1", 500, IF "L1" \in gainers THEN <<"9">> ELSE Loss),
    FetchTicker("N1", 9900, <<"8">>),
    FetchTicker("T3", 7000, Loss), FetchTicker("T4", 6000, Loss),
    FetchTicker("T5", 5000, Loss), FetchTicker("T6", 4000, Loss),
    FetchTicker("L2", 400, IF "L2" \in gainers THEN <<"7">> ELSE Loss),
    FetchTicker("T7", 3000, Loss), FetchTicker("T8", 2000, Loss),
    FetchTicker("T9", 1000, Loss)>>

TradingSymbols == {"T1", "T2", "T3", "T4", "T5", "T6", "T7", "T8", "T9", "L1", "L2", "L3"}

\* The RSI of a symbol's candles.
RsiOf(symbol) == IF symbol = "L1" THEN R(60) ELSE IF symbol = "L2" THEN R(0) ELSE R(100)

\* What getCandlestickData and the computations do for a symbol: null, 13
\* candles, 14 candles, or 14 candles and an exception while computing.
FetchOutcomes(symbol) ==
  {[klines |-> Null, throws |-> FALSE, rsi |-> RsiOf(symbol)],
   [klines |-> Some(MinCandles - 1), throws |-> FALSE, rsi |-> RsiOf(symbol)],
   [klines |-> Some(MinCandles), throws |-> FALSE, rsi |-> RsiOf(symbol)],
   [klines |-> Some(MinCandles), throws |-> TRUE, rsi |-> RsiOf(symbol)]}

\* The per-symbol patterns of the seasonality analyses.
WeeklyOf == [s \in Candidates |->
               IF s = "L1" THEN PeerDaily ELSE IF s = "L2" THEN PeerFourHour ELSE Null]

DayHourOf == [s \in Candidates |->
                IF s = "L1" THEN PeerHourly ELSE IF s = "L2" THEN PeerHalfHour ELSE PeerUniform]

InitFetch ==
  /\ fn = None
  /\ ret = None
  /\ \E gainers \in SUBSET Candidates, targetCount \in 2..MaxCoins :
       \E fetch \in [gainers -> UNION {FetchOutcomes(s) : s \in Candidates}] :
         \E weeklyFails \in BOOLEAN, dayHourFails \in BOOLEAN :
           /\ \A s \in gainers : fetch[s] \in FetchOutcomes(s)
           /\ args = [tickers |-> TickersOf(gainers), tradingSymbols |-> TradingSymbols,
                      fundingDict |-> <<>>, targetCount |-> targetCount, fetch |-> fetch,
                      weekly |-> WeeklyOf, dayHour |-> DayHourOf,
                      weeklyFails |-> weeklyFails, dayHourFails |-> dayHourFails,
                      now |-> 0]

\* Promise.all of getTradingSymbols, getTicker24hr and getFundingRates
\* resolves.
FetchLists ==
  /\ fn = None
  /\ fn' = "fetchData.loop"
  /\ ret' = startFetch(args)
  /\ UNCHANGED args

\* One of the three requests rejects: the outer catch sets the error.
FetchListsFail ==
  /\ fn = None
  /\ fn' = "fetchData.done"
  /\ ret' = failPass([startFetch(args) EXCEPT !.validTickers = <<>>])
  /\ UNCHANGED args

ProcessTicker ==
  /\ fn = "fetchData.loop"
  /\ ret.i < Len(ret.validTickers)
  /\ ret' = processTicker(ret, args)
  /\ fn' = IF ret'.error # Null THEN "fetchData.done" ELSE "fetchData.loop"
  /\ UNCHANGED args

AnalyzeWeekly ==
  /\ fn = "fetchData.loop"
  /\ ret.i = Len(ret.validTickers)
  /\ fn' = "fetchData.weekly"
  /\ ret' = analyzeWeeklyStep(ret, args)
  /\ UNCHANGED args

AnalyzeDayHour ==
  /\ fn = "fetchData.weekly"
  /\ fn' = "fetchData.dayHour"
  /\ ret' = analyzeDayHourStep(ret, args)
  /\ UNCHANGED args

Publish ==
  /\ fn = "fetchData.dayHour"
  /\ fn' = "fetchData.published"
  /\ ret' = publish(ret)
  /\ UNCHANGED args

NextFetch ==
  \/ FetchLists \/ FetchListsFail \/ ProcessTicker
  \/ AnalyzeWeekly \/ AnalyzeDayHour \/ Publish

SpecFetch == InitFetch /\ [][NextFetch]_vars

InPass == fn \in {"fetchData.loop", "fetchData.weekly", "fetchData.dayHour",
                  "fetchData.published", "fetchData.done"}

\* A selected ticker whose candles arrive, number at least 14, and whose
\* computation does not throw.
Healthy(symbol) ==
  /\ args.fetch[symbol].klines # Null
  /\ args.fetch[symbol].klines[1] >= MinCandles
  /\ ~args.fetch[symbol].throws

PublishedSymbols == {ret.coinScores[1][j].symbol : j \in DOMAIN ret.coinScores[1]}

\* C17: whatever subset of the selected symbols fails (candles null, fewer
\* than 14 candles, or an exception in the computation), the pass sets no
\* error once the three lists have arrived, and the list it publishes holds a
\* CoinScore for every other selected symbol.
C17_FailuresIsolated ==
  /\ (InPass /\ ret.error # Null) => (fn = "fetchData.done" /\ ret.validTickers = <<>>)
  /\ fn = "fetchData.published" =>
       /\ ret.error = Null
       /\ \A k \in DOMAIN ret.validTickers :
            Healthy(ret.validTickers[k].symbol) =>
              ret.validTickers[k].symbol \in PublishedSymbols

\* A pass over three selected symbols of which one throws and one has too
\* few candles, published with the third.
C17_Witness ==
  /\ fn = "fetchData.published"
  /\ Len(ret.validTickers) = 3
  /\ \E s \in Candidates : args.fetch[s].throws
  /\ \E s \in Candidates : args.fetch[s].klines = Some(MinCandles - 1)
  /\ Cardinality(PublishedSymbols) = 1
  /\ ret.error = Null

\* C18: the list fetchData publishes is ordered by non-increasing
\* short_score, with the timing step applied or not.
C18_PublishedSorted ==
  (InPass /\ ret.coinScores # Null) =>
    \A i, j \in DOMAIN ret.coinScores[1] :
      i < j => Ge(ret.coinScores[1][i].short_score, ret.coinScores[1][j].short_score)

\* A list of three coins published without the timing step after the
\* day-hour analysis failed: the coin pushed second has the lowest score.
C18_Witness ==
  /\ fn = "fetchData.published"
  /\ args.dayHourFails
  /\ ret.timingScore = Null
  /\ Len(ret.coinScores[1]) = 3
  /\ ret.coinScores[1][3].symbol = "L2"
  /\ Gt(ret.coinScores[1][1].short_score, ret.coinScores[1][3].short_score)

\* The number of trading tickers of strictly larger quote volume.
VolumeRank(symbol) ==
  LET mine == CHOOSE i \in DOMAIN args.tickers : args.tickers[i].symbol = symbol
  IN Cardinality({i \in DOMAIN args.tickers :
                    /\ args.tickers[i].symbol \in args.tradingSymbols
                    /\ Gt(parseFloat(args.tickers[i].quoteVolume),
                          parseFloat(args.tickers[mine].quoteVolume))})

\* C19: no symbol among the 10 trading symbols of highest quote volume hands
\* a per-symbol pattern to analyzeMarketWeeklyPattern or
\* analyzeMarketDayHourPattern.
C19_TopVolumeExcluded ==
  fn \in {"fetchData.weekly", "fetchData.dayHour", "fetchData.published"} =>
    \A s \in Range(ret.weeklyInput) \cup Range(ret.dayHourInput) :
      ~(s \in args.tradingSymbols /\ VolumeRank(s) < TopVolumeCount)

\* L1, tenth by volume, was scored and published but only L2 and L3 were
\* handed to the market aggregations.
C19_Witness ==
  /\ fn = "fetchData.published"
  /\ "L1" \in PublishedSymbols
  /\ VolumeRank("L1") = TopVolumeCount - 1
  /\ Range(ret.weeklyInput) = {"L2", "L3"}
  /\ Range(ret.dayHourInput) = {"L2", "L3"}

----------------------------------------------------------------------------
(* The funding sub-score of two symbols *)

\* lastFundingRate per funding period: -1% and -0.5% are the same hourly rate
\* over 8 h and 4 h, -1.2% and +1.2% over 8 h are -0.15% and +0.15% per hour.
FundingRates ==
  {Frac(-2, 100), Frac(-12, 1000), Frac(-1, 100), Frac(-5, 1000), R(0), Frac(12, 1000),
   Frac(2, 100)}

\* fundingIntervalHours: absent, 0, or the period in hours.
FundingIntervals == {Null, Some(R(0)), Some(R(4)), Some(R(8))}

\* nextFundingTime: absent (0), or 1 h and 3 h after the epoch.
NextFundingTimes == {0, 3600000, 10800000}

\* Date.now(): the epoch, or 2 h later.
FundingNows == {0, 7200000}

FundingInfos ==
  {[lastFundingRate |-> r, nextFundingTime |-> t, fundingIntervalHours |-> h] :
     r \in FundingRates, t \in NextFundingTimes, h \in FundingIntervals}

InitFunding ==
  /\ fn = None
  /\ ret = None
  /\ \E a \in FundingInfos, b \in FundingInfos, now \in FundingNows :
       args = [a |-> a, b |-> b, now |-> now]

CallFundingPeriod ==
  /\ fn = None
  /\ fn' = "calculateFundingPeriod"
  /\ ret' = [s \in {"a", "b"} |->
               [funding_period |-> calculateFundingPeriod(args[s].nextFundingTime,
                                                          args[s].fundingIntervalHours,
                                                          args.now)]]
  /\ UNCHANGED args

\* The funding sub-score of calculateShortScore for each of the two symbols.
CallFundingScore ==
  /\ fn = "calculateFundingPeriod"
  /\ fn' = "fundingScore"
  /\ ret' = [s \in {"a", "b"} |->
               [funding_period |-> ret[s].funding_period,
                fundingScore |-> fundingScore(s, [x \in {s} |-> args[s]], args.now)]]
  /\ UNCHANGED args

NextFunding == CallFundingPeriod \/ CallFundingScore

SpecFunding == InitFunding /\ [][NextFunding]_vars

\* h% = 100 * lastFundingRate / period, with the period of the call.
HourlyPercent(s) == Div(Mul(R(100), args[s].lastFundingRate), ret[s].funding_period)

Clamp01(x) == IF Lt(x, R(0)) THEN R(0) ELSE IF Gt(x, R(1)) THEN R(1) ELSE x

----------------------------------------------------------------------------
(* computeTimingScore at every hour of a week *)

\* Bound of the instants of the timing call: whole hours after the epoch.
MaxTimingHours == 200

\* Milliseconds into the hour.
TimingOffsets == {0, 1799999}

\* A symbol with hourly candles over eight days.
WeekHourly == analyzeDayHourPattern(HourlyKlines(0, 192, <<2, 1, 4>>))

\* A symbol with daily candles over fifteen days.
WeekDaily ==
  analyzeWeeklyPattern(WeeklyKlines(0, 86400000, <<2, 1, 1, 2, 1, 3, 4, 3, 4, 5, 4, 3, 2, 3, 1>>))

MarketWeekly == analyzeMarketWeeklyPattern(<<WeekDaily, Null, PeerFourHour>>)

MarketDayHour == analyzeMarketDayHourPattern(<<WeekHourly, PeerHalfHour, Null>>)

InitTiming ==
  /\ fn = None
  /\ ret = None
  /\ \E hours \in 0..MaxTimingHours, offset \in TimingOffsets :
       args = [kstNow |-> hours * 3600000 + offset]

\* The timing score from the patterns of one symbol.
TimingOfSymbol ==
  /\ fn = None
  /\ fn' = "computeTimingScore"
  /\ args' = [kstNow |-> args.kstNow, weeklyPattern |-> WeekDaily,
              dayHourPattern |-> WeekHourly]
  /\ ret' = computeTimingScore(WeekDaily, WeekHourly, args.kstNow)

\* The timing score of fetchData, from the two market patterns.
TimingOfMarket ==
  /\ fn = None
  /\ fn' = "computeTimingScore"
  /\ args' = [kstNow |-> args.kstNow, weeklyPattern |-> MarketWeekly,
              dayHourPattern |-> MarketDayHour]
  /\ ret' = computeTimingScore(MarketWeekly, MarketDayHour, args.kstNow)

NextTiming == TimingOfSymbol \/ TimingOfMarket

SpecTiming == InitTiming /\ [][NextTiming]_vars

\* Weekday (0 = Sunday) and hour of an instant on the clock of UTC+9.
ClockDay(t) == ((t + 9 * 3600000) \div 86400000 + 4) % 7

ClockHour(t) == ((t + 9 * 3600000) \div 3600000) % 24

\* The entry of a weekly pattern for a weekday, found by its name.
WinRateOfDay(weeklyPattern, d) ==
  LET key == CHOOSE k \in Range(DayKeys) : weeklyPattern[k].day = WeeklyDayNames[d + 1]
  IN weeklyPattern[key].winRate

\* The cells of a day-hour pattern that carry weekday d and hour h.
CellsOf(dayHourPattern, d, h) ==
  {cell \in UNION {Range(dayHourPattern.data[r]) : r \in DOMAIN dayHourPattern.data} :
     cell.dayOfWeek = d /\ cell.hour = h}

\* C21: at every instant the timing score is 0.5 * winRate + 0.5 *
\* clamp(0.5 - 0.25 * clamp(avgChange, -2, 2), 0, 1), with the winRate of the
\* weekday and the avgChange of the one cell whose dayOfWeek and hour are the
\* weekday and hour of the instant on the clock of UTC+9; the cell read,
\* data[dayHourDataIndex(d)][h], is that cell; the score lies in [0, 1].
C21_TimingCell ==
  fn = "computeTimingScore" =>
    LET d == ClockDay(args.kstNow)
        h == ClockHour(args.kstNow)
        cells == CellsOf(args.dayHourPattern[1], d, h)
        read == args.dayHourPattern[1].data[dayHourDataIndex(d) + 1][h + 1]
    IN /\ cells = {read}
       /\ \A cell \in cells :
            ret = Add(Mul(Frac(1, 2), WinRateOfDay(args.weeklyPattern[1], d)),
                      Mul(Frac(1, 2),
                          Clamp01(Sub(Frac(1, 2),
                                      Mul(Frac(1, 4),
                                          IF Lt(cell.avgChange, R(-2)) THEN R(-2)
                                          ELSE IF Gt(cell.avgChange, R(2)) THEN R(2)
                                          ELSE cell.avgChange)))))
       /\ InUnit(ret)

\* A Sunday hour before 09:00 in UTC+9 (still Saturday in UTC), read from the
\* market patterns, in a cell with observations and a non-zero average.
C21_Witness ==
  /\ fn = "computeTimingScore"
  /\ ClockDay(args.kstNow) = 0
  /\ getUTCDay(args.kstNow) = 6
  /\ args.dayHourPattern = MarketDayHour
  /\ LET cell == args.dayHourPattern[1].data[7][ClockHour(args.kstNow) + 1]
     IN cell.totalCount > 0 /\ cell.avgChange # R(0)
  /\ ret # Frac(1, 2)

----------------------------------------------------------------------------
(* The share of the timing score *)

\* C22: the timing step of fetchData supplies the 25% that the base weights
\* of calculateShortScore (75% in sum) leave open: the final score of a coin
\* is min(100, base + 25 * timingScore), so that sub-scores and a timing
\* score of 1 give 100.
C22_TimingQuarter ==
  fn = "fetchData" =>
    \A i \in DOMAIN ret :
      ret[i].symbol = Symbol =>
        ret[i].short_score
          = MathMin(R(100), Add(ScoreOf(args.coin), Mul(R(25), args.timingScore)))

----------------------------------------------------------------------------
(* Overlapping requests of TopGainers.fetchData and ShortAnalysis.handleSearch *)

\* The two components' state lives in `ret`: gainers, loading, error of
\* TopGainers; searchResult, searchLoading, searchError of ShortAnalysis; and
\* requests, the calls made so far in the order of their start, each pending
\* until its responses arrive ("ok") or fail ("failed"). A result is named
\* by the request that fetched it.

\* Bound of the number of requests started.
MaxRequests == 4

SearchSymbols == {"AAA", "BBB"}

InitRefresh ==
  /\ fn = None
  /\ args = None
  /\ ret = [gainers |-> Null, loading |-> TRUE, error |-> Null,
            searchResult |-> Null, searchLoading |-> FALSE, searchError |-> Null,
            requests |-> <<>>]

\* The start of TopGainers.fetchData: setLoading(true), setError(null), and
\* the three requests leave.
startRefresh(st) ==
  [st EXCEPT !.loading = TRUE, !.error = Null,
             !.requests = Append(@, [kind |-> "refresh", symbol |-> "", state |-> "pending"])]

\* setInterval(fetchData, 30000), and the call of the mount effect.
TimerRefresh ==
  /\ Len(ret.requests) < MaxRequests
  /\ fn' = "TopGainers.timer"
  /\ args' = [request |-> Len(ret.requests) + 1]
  /\ ret' = startRefresh(ret)

\* The refresh button (disabled while loading) and the retry button of the
\* error view.
ClickRefresh ==
  /\ Len(ret.requests) < MaxRequests
  /\ ~ret.loading \/ ret.error # Null
  /\ fn' = "TopGainers.click"
  /\ args' = [request |-> Len(ret.requests) + 1]
  /\ ret' = startRefresh(ret)

\* The responses of a refresh arrive: setGainers, setStats, and the finally
\* block.
RefreshArrives ==
  \E id \in DOMAIN ret.requests :
    /\ ret.requests[id].kind = "refresh"
    /\ ret.requests[id].state = "pending"
    /\ fn' = "TopGainers.fetchData"
    /\ args' = [request |-> id]
    /\ ret' = [ret EXCEPT !.gainers = Some(id), !.loading = FALSE,
                          !.requests[id].state = "ok"]

\* A request of a refresh rejects: the catch and the finally block.
RefreshFails ==
  \E id \in DOMAIN ret.requests :
    /\ ret.requests[id].kind = "refresh"
    /\ ret.requests[id].state = "pending"
    /\ fn' = "TopGainers.fetchData"
    /\ args' = [request |-> id]
    /\ ret' = [ret EXCEPT !.error = Some("error"), !.loading = FALSE,
                          !.requests[id].state = "failed"]

\* handleSymbolSelect or the Enter key: handleSearch starts, whatever
\* searchLoading is.
StartSearch ==
  /\ Len(ret.requests) < MaxRequests
  /\ \E symbol \in SearchSymbols :
       /\ fn' = "ShortAnalysis.handleSearch"
       /\ args' = [request |-> Len(ret.requests) + 1, symbol |-> symbol]
       /\ ret' = [ret EXCEPT !.searchLoading = TRUE, !.searchError = Null,
                             !.searchResult = Null,
                             !.requests = Append(@, [kind |-> "search", symbol |-> symbol,
                                                     state |-> "pending"])]

\* analyzeCoin resolves: setSearchResult and the finally block.
SearchArrives ==
  \E id \in DOMAIN ret.requests :
    /\ ret.requests[id].kind = "search"
    /\ ret.requests[id].state = "pending"
    /\ fn' = "ShortAnalysis.analyzeCoin"
    /\ args' = [request |-> id, symbol |-> ret.requests[id].symbol]
    /\ ret' = [ret EXCEPT !.searchResult = Some([request |-> id,
                                                  symbol |-> ret.requests[id].symbol]),
                          !.searchLoading = FALSE, !.requests[id].state = "ok"]

\* analyzeCoin rejects: setSearchError and the finally block.
SearchFails ==
  \E id \in DOMAIN ret.requests :
    /\ ret.requests[id].kind = "search"
    /\ ret.requests[id].state = "pending"
    /\ fn' = "ShortAnalysis.analyzeCoin"
    /\ args' = [request |-> id, symbol |-> ret.requests[id].symbol]
    /\ ret' = [ret EXCEPT !.searchError = Some("error"), !.searchLoading = FALSE,
                          !.requests[id].state = "failed"]

NextRefresh ==
  \/ TimerRefresh \/ ClickRefresh \/ RefreshArrives \/ RefreshFails
  \/ StartSearch \/ SearchArrives \/ SearchFails

SpecRefresh == InitRefresh /\ [][NextRefresh]_vars

RequestsOf(kind) == {id \in DOMAIN ret.requests : ret.requests[id].kind = kind}

\* Every request of the kind has been answered with data.
AllArrived(kind) ==
  /\ RequestsOf(kind) # {}
  /\ \A id \in RequestsOf(kind) : ret.requests[id].state = "ok"

LastOf(kind) == CHOOSE id \in RequestsOf(kind) : \A other \in RequestsOf(kind) : other <= id

\* C23: once every refresh (every coin search) started so far has completed,
\* the gainers (the search result) shown are those of the request started
\* last, whatever the order of the responses.
C23_LatestWins ==
  /\ AllArrived("refresh") => ret.gainers = Some(LastOf("refresh"))
  /\ AllArrived("search") => ret.searchResult[1].request = LastOf("search")

----------------------------------------------------------------------------
(* calculateVPVRScore on two prices of one market *)

\* Current prices around a point of control of 100, and the ATR values that
\* put atr / price * 100 on both sides of the confidence thresholds 3 and 5.
VpvrScorePrices == 93..107

VpvrScorePocs == {Null, Some([poc |-> R(0)]), Some([poc |-> R(100)])}

VpvrScoreAtrs == {Null, Some(R(0)), Some(R(2)), Some(R(3)), Some(R(5))}

InitVpvrScore ==
  /\ fn = None
  /\ ret = None
  /\ \E lower \in VpvrScorePrices, higher \in VpvrScorePrices,
        vpvrPOC \in VpvrScorePocs, atr \in VpvrScoreAtrs :
       /\ lower < higher
       /\ args = [lower |-> R(lower), higher |-> R(higher), vpvrPOC |-> vpvrPOC, atr |-> atr]

CallVPVRScore ==
  /\ fn = None
  /\ fn' = "calculateVPVRScore"
  /\ ret' = [lower |-> calculateVPVRScore(args.lower, args.vpvrPOC, args.atr),
             higher |-> calculateVPVRScore(args.higher, args.vpvrPOC, args.atr)]
  /\ UNCHANGED args

NextVpvrScore == CallVPVRScore

SpecVpvrScore == InitVpvrScore /\ [][NextVpvrScore]_vars

\* C24: for one point of control and one ATR (or none), the lower of two
\* current prices never scores lower than the higher one.
C24_MonotoneInPrice ==
  fn = "calculateVPVRScore" => Ge(ret.lower, ret.higher)

\* The prices 99 and 100 at a point of control of 100 and an ATR of 5.
C24_FailingInput ==
  /\ fn = "calculateVPVRScore"
  /\ args = [lower |-> R(99), higher |-> R(100), vpvrPOC |-> Some([poc |-> R(100)]),
             atr |-> Some(R(5))]
  /\ ret = [lower |-> Frac(35, 100), higher |-> Frac(425, 1000)]

----------------------------------------------------------------------------
(* CustomChart: loadData, loadMoreHistoricalData and updateLatestCandle *)

\* The chart's state lives in `ret`: view, the (symbol, timeframe) pair of
\* the current render; data, allCandlestickDataRef.current; isLoadingMore,
\* isLoadingMoreRef.current; controller, abortControllerRef.current (Null or
\* the number of the request that owns it); aborted, the controllers on which
\* abort() was called; subscribed, the views whose loadData subscribed its
\* visible-range handler (never unsubscribed: the cleanup loadData returns is
\* discarded); started, the number of requests made; inflight, the requests
\* awaiting getCandlestickData. A candle is [time, view, close]: view names
\* the pair it was fetched for. MAX_CANDLE_COUNT is Number.MAX_SAFE_INTEGER,
\* so no slice of the code ever drops a candle.

\* Bound of the number of requests started.
MaxChartRequests == 4

\* The candle times, and the lengths of a response.
ChartTimes == 1..3

ChartResponseLengths == 0..2

ChartViews == {"X", "Y"}

ChartCloses == {1, 2}

Candle(time, view, close) == [time |-> time, view |-> view, close |-> close]

\* candlestickData.sort((a, b) => a.time - b.time).filter((item, index, self)
\* => index === self.findIndex((t) => t.time === item.time)): the sort is
\* stable, so of the candles of one time the first of the list is kept.
FirstOfTime(candles, time) ==
  candles[CHOOSE i \in DOMAIN candles :
            /\ candles[i].time = time
            /\ \A j \in 1..(i - 1) : candles[j].time # time]

RECURSIVE AscendingByTime(_, _)
AscendingByTime(candles, times) ==
  IF times = {} THEN <<>>
  ELSE LET first == CHOOSE t \in times : \A u \in times : t <= u
       IN <<FirstOfTime(candles, first)>> \o AscendingByTime(candles, times \ {first})

SortedUnique(candles) ==
  AscendingByTime(candles, {candles[i].time : i \in DOMAIN candles})

\* What getCandlestickData may answer for a view: candles in any order,
\* times repeated or not.
ChartResponses(view) ==
  UNION {[1..n -> {Candle(t, view, 1) : t \in ChartTimes}] : n \in ChartResponseLengths}

\* What getCandlestickData(symbol, timeframe, 1) may answer: no candle or one.
LatestResponses(view) ==
  {<<>>} \cup {<<Candle(t, view, c)>> : t \in ChartTimes, c \in ChartCloses}

ChartRequest(id, kind, view, currentData) ==
  [id |-> id, kind |-> kind, view |-> view, currentData |-> currentData]

\* The chart after its first render of the view X: the effect ran, loadData
\* is awaiting its candles and the 3-second interval is set.
InitChart ==
  /\ fn = None
  /\ args = None
  /\ ret = [view |-> "X", data |-> <<>>, isLoadingMore |-> FALSE, controller |-> Null,
            aborted |-> {}, subscribed |-> {}, started |-> 1,
            inflight |-> {ChartRequest(1, "loadData", "X", <<>>)}]

\* The symbol or the timeframe changes: the cleanup of the effect clears the
\* interval and aborts the controller, and the effect runs again for the new
\* view and calls loadData.
SwitchView ==
  /\ ret.started < MaxChartRequests
  /\ \E view \in ChartViews \ {ret.view} :
       /\ fn' = "CustomChart.effect"
       /\ args' = [view |-> view, request |-> ret.started + 1, response |-> <<>>]
       /\ ret' = [ret EXCEPT
                    !.view = view,
                    !.aborted = IF ret.controller = Null THEN @ ELSE @ \cup {ret.controller[1]},
                    !.controller = Null,
                    !.started = @ + 1,
                    !.inflight = @ \cup {ChartRequest(ret.started + 1, "loadData", view, <<>>)}]

\* loadData after its await: an empty answer throws; otherwise the candles
\* are sorted, deduplicated and stored, and the visible-range handler of
\* this view is subscribed.
LoadDataArrives ==
  \E request \in ret.inflight :
    /\ request.kind = "loadData"
    /\ \E response \in ChartResponses(request.view) :
         /\ fn' = "loadData"
         /\ args' = [view |-> request.view, request |-> request.id, response |-> response]
         /\ ret' = IF response = <<>>
                   THEN [ret EXCEPT !.inflight = @ \ {request}]
                   ELSE [ret EXCEPT !.inflight = @ \ {request},
                                    !.data = SortedUnique(response),
                                    !.subscribed = @ \cup {request.view}]

\* loadMoreHistoricalData up to its await, called by the debounced handler
\* of a subscribed view, which returns while isLoadingMoreRef is set or no
\* candle is stored.
StartLoadMore ==
  /\ ret.started < MaxChartRequests
  /\ ~ret.isLoadingMore
  /\ ret.data # <<>>
  /\ \E view \in ret.subscribed :
       /\ fn' = "loadMoreHistoricalData.start"
       /\ args' = [view |-> view, request |-> ret.started + 1, response |-> <<>>]
       /\ ret' = [ret EXCEPT
                    !.aborted = IF ret.controller = Null THEN @ ELSE @ \cup {ret.controller[1]},
                    !.controller = Some(ret.started + 1),
                    !.isLoadingMore = TRUE,
                    !.started = @ + 1,
                    !.inflight = @ \cup {ChartRequest(ret.started + 1, "loadMore", view, ret.data)}]

\* loadMoreHistoricalData after its await: an aborted request (the AbortError
\* of the fetch, or the checks of signal.aborted) and an empty answer only
\* clear isLoadingMoreRef; otherwise the answer is merged in front of the
\* candles read before the await.
LoadMoreArrives ==
  \E request \in ret.inflight :
    /\ request.kind = "loadMore"
    /\ \E response \in ChartResponses(request.view) :
         /\ fn' = "loadMoreHistoricalData"
         /\ args' = [view |-> request.view, request |-> request.id, response |-> response]
         /\ ret' = IF request.id \in ret.aborted \/ response = <<>>
                   THEN [ret EXCEPT !.inflight = @ \ {request}, !.isLoadingMore = FALSE]
                   ELSE [ret EXCEPT !.inflight = @ \ {request}, !.isLoadingMore = FALSE,
                                    !.data = SortedUnique(response \o request.currentData)]

\* The interval of the current effect fires: updateLatestCandle up to its
\* await.
StartUpdate ==
  /\ ret.started < MaxChartRequests
  /\ ~ret.isLoadingMore
  /\ fn' = "updateLatestCandle.start"
  /\ args' = [view |-> ret.view, request |-> ret.started + 1, response |-> <<>>]
  /\ ret' = [ret EXCEPT !.started = @ + 1,
                        !.inflight = @ \cup {ChartRequest(ret.started + 1, "update", ret.view, <<>>)}]

\* A plausible slip: a candle of any other time is appended.
updateLatestCandle_AppendOlder(currentData, klines) ==
  IF klines = <<>> \/ currentData = <<>> THEN currentData
  ELSE LET latestCandle == klines[1]
           lastCandle == currentData[Len(currentData)]
       IN IF lastCandle.time = latestCandle.time
          THEN [currentData EXCEPT ![Len(currentData)] = latestCandle]
          ELSE Append(currentData, latestCandle)

\* updateLatestCandle after its await, on the candles stored at that moment.
updateLatestCandle(currentData, klines) ==
  IF klines = <<>> \/ currentData = <<>> THEN currentData
  ELSE LET latestCandle == klines[1]
           lastCandle == currentData[Len(currentData)]
       IN IF lastCandle.time = latestCandle.time
          THEN [currentData EXCEPT ![Len(currentData)] = latestCandle]
          ELSE IF latestCandle.time > lastCandle.time
          THEN Append(currentData, latestCandle)
          ELSE currentData

UpdateArrives ==
  \E request \in ret.inflight :
    /\ request.kind = "update"
    /\ \E response \in LatestResponses(request.view) :
         /\ fn' = "updateLatestCandle"
         /\ args' = [view |-> request.view, request |-> request.id, response |-> response]
         /\ ret' = [ret EXCEPT !.inflight = @ \ {request},
                               !.data = updateLatestCandle(ret.data, response)]

NextChart ==
  \/ SwitchView \/ LoadDataArrives \/ StartLoadMore \/ LoadMoreArrives
  \/ StartUpdate \/ UpdateArrives

SpecChart == InitChart /\ [][NextChart]_vars

StrictlyIncreasingTimes(candles) ==
  \A i \in 1..(Len(candles) - 1) : candles[i].time < candles[i + 1].time

\* A step of updateLatestCandle that fetched a candle for a non-empty list.
UpdateStored ==
  /\ fn' = "updateLatestCandle"
  /\ args'.response # <<>>
  /\ ret.data # <<>>

\* C25: the stored candles always have strictly increasing times (so no time
\* twice), and updateLatestCandle replaces the last candle by a fetched candle
\* of the same time, appends one of a greater time and changes nothing for
\* one of a smaller time.
C25_OrderedCandles ==
  /\ [](StrictlyIncreasingTimes(ret.data))
  /\ [][UpdateStored =>
          LET latest == args'.response[1]
              last == ret.data[Len(ret.data)]
          IN /\ latest.time = last.time
                  => ret'.data = [ret.data EXCEPT ![Len(ret.data)] = latest]
             /\ latest.time > last.time => ret'.data = Append(ret.data, latest)
             /\ latest.time < last.time => ret'.data = ret.data]_vars

\* Candles were loaded, merged with older ones, and a newer candle was
\* appended by updateLatestCandle.
C25_Witness ==
  /\ fn = "updateLatestCandle"
  /\ args.response # <<>>
  /\ Len(ret.data) = 3
  /\ ret.data[3] = args.response[1]
  /\ ret.subscribed # {}

\* A step that stores other candles than before.
ChartCommit == ret'.data # ret.data

\* C26: once the symbol or the timeframe has changed, no step stores candles
\* fetched for another view than the current one, and an aborted
\* loadMoreHistoricalData stores nothing.
C26_NoStaleCommit ==
  [][ChartCommit =>
       /\ args'.view = ret'.view
       /\ \A i \in DOMAIN ret'.data : ret'.data[i].view = ret'.view
       /\ args'.request \notin ret.aborted]_vars

\* The view changed from X to Y, Y's candles were stored, and then the
\* answer to X's loadData arrived and replaced them.
C26_FailingInput ==
  /\ fn = "loadData"
  /\ args.view = "X"
  /\ ret.view = "Y"
  /\ "Y" \in ret.subscribed
  /\ ret.data # <<>>
  /\ \A i \in DOMAIN ret.data : ret.data[i].view = "X"

----------------------------------------------------------------------------
(* fetchWithRetry *)

\* One call of fetchWithRetry(url, maxRetries): args is maxRetries, and `ret`
\* holds the loop counter i, the outcome of every fetch made so far (a status,
\* or NetworkError for a rejected fetch), and the state of the returned
\* promise with its value: the status of the response it resolved to, or
\* lastError, Some(status) for the error "HTTP status" and
\* Some(NetworkError) for the error of a rejected fetch.

\* Bound of maxRetries.
MaxRetryLimit == 3

NetworkError == 0

retryableStatuses == {429, 500, 502, 503, 504}

FetchOutcomeSet == {NetworkError, 200, 400, 404, 429, 503}

InitRetry ==
  /\ fn = None
  /\ args \in 0..MaxRetryLimit
  /\ ret = [i |-> 0, fetched |-> <<>>, promise |-> "pending", value |-> Null]

\* The catch block and the end of an iteration for the error `error`.
caught(st, outcome, error) ==
  IF st.i < args - 1
  THEN [st EXCEPT !.fetched = Append(@, outcome), !.i = @ + 1, !.value = Some(error)]
  ELSE [st EXCEPT !.fetched = Append(@, outcome), !.promise = "rejected", !.value = Some(error)]

Looping == ret.promise = "pending" /\ ret.i < args

\* fetch resolves with an OK response.
FetchSucceeds ==
  /\ Looping
  /\ fn' = "fetchWithRetry"
  /\ ret' = [ret EXCEPT !.fetched = Append(@, 200), !.promise = "resolved", !.value = Some(200)]
  /\ UNCHANGED args

\* fetch resolves with a retryable status: the wait and `continue` before
\* the last attempt, the throw of the HTTP error into the catch block at the
\* last attempt.
FetchRetryable ==
  /\ Looping
  /\ \E status \in FetchOutcomeSet \cap retryableStatuses :
       /\ fn' = "fetchWithRetry"
       /\ ret' = IF ret.i < args - 1
                 THEN [ret EXCEPT !.fetched = Append(@, status), !.i = @ + 1]
                 ELSE caught(ret, status, status)
  /\ UNCHANGED args

\* fetch resolves with another status that is not OK: the HTTP error is
\* thrown inside the try block and caught by its catch block.
FetchRefused ==
  /\ Looping
  /\ \E status \in FetchOutcomeSet \ (retryableStatuses \cup {200, NetworkError}) :
       /\ fn' = "fetchWithRetry"
       /\ ret' = caught(ret, status, status)
  /\ UNCHANGED args

\* fetch rejects.
FetchRejects ==
  /\ Looping
  /\ fn' = "fetchWithRetry"
  /\ ret' = caught(ret, NetworkError, NetworkError)
  /\ UNCHANGED args

\* The loop ends without an iteration (maxRetries <= 0): the throw after it.
LoopExhausted ==
  /\ ret.promise = "pending"
  /\ ret.i >= args
  /\ fn' = "fetchWithRetry"
  /\ ret' = [ret EXCEPT !.promise = "rejected",
                        !.value = IF ret.value = Null THEN Some(NetworkError) ELSE @]
  /\ UNCHANGED args

NextRetry == FetchSucceeds \/ FetchRetryable \/ FetchRefused \/ FetchRejects \/ LoopExhausted

SpecRetry == InitRetry /\ [][NextRetry]_vars

\* C27: a response that is not OK and whose status is not retryable ends the
\* call: it is the last fetch and the promise is rejected with its HTTP
\* error; and no call makes more than maxRetries fetches.
C27_RefusalNotRetried ==
  /\ Len(ret.fetched) <= args
  /\ \A k \in DOMAIN ret.fetched :
       ret.fetched[k] \notin retryableStatuses \cup {200, NetworkError}
         => /\ k = Len(ret.fetched)
            /\ ret.promise = "rejected"
            /\ ret.value = Some(ret.fetched[k])

\* fetchWithRetry(url, 3) whose first response is a 404 and whose second
\* fetch returned an OK response.
C27_FailingInput ==
  /\ args = 3
  /\ ret.fetched = <<404, 200>>
  /\ ret.promise = "resolved"

----------------------------------------------------------------------------
(* DayHourHeatmap *)

\* The column order of the heatmap: 9..23, 0..8, and 24 for 09:00 of the
\* next day.
HOUR_ORDER == [i \in 1..15 |-> i + 8] \o [i \in 1..9 |-> i - 1] \o <<24>>

\* dayData[hour] of a row is an element of the array (not undefined).
CellExists(dayData, hour) == hour + 1 \in DOMAIN dayData

\* C28: in every table the heatmap may be given, every weekday row holds a
\* cell at every index of HOUR_ORDER.
C28_CellsExist ==
  (fn \in {"analyzeDayHourPattern", "analyzeMarketDayHourPattern"} /\ ret # Null) =>
    \A d \in DOMAIN ret[1].data :
      \A k \in DOMAIN HOUR_ORDER : CellExists(ret[1].data[d], HOUR_ORDER[k])

\* A market table: seven rows of 24 cells each, the indices 0..23, so the
\* read of index 24 yields undefined.
C28_FailingInput ==
  /\ fn = "analyzeMarketDayHourPattern"
  /\ ret # Null
  /\ Len(ret[1].data) = 7
  /\ \A d \in 1..7 :
       /\ Len(ret[1].data[d]) = 24
       /\ \A k \in 1..24 : CellExists(ret[1].data[d], HOUR_ORDER[k])
       /\ ~CellExists(ret[1].data[d], HOUR_ORDER[25])

----------------------------------------------------------------------------
(* calculateADX on well-formed candles *)

\* Bound of the candle series.
MaxAdxLen == 4

AdxPeriods == {1, 2}

\* <<high, low, close>> with 0 < low <= close <= high.
AdxCandles ==
  {<<1, 1, 1>>, <<2, 1, 2>>, <<2, 2, 2>>, <<3, 2, 3>>, <<3, 3, 3>>, <<4, 1, 2>>}

InitADX ==
  /\ fn = None
  /\ ret = None
  /\ \E period \in AdxPeriods :
       \E candles \in SeqsOf(AdxCandles, 2 * period, MaxAdxLen) :
         args = [klines |-> Arr([i \in DOMAIN candles |->
                                   Kline(i, R(candles[i][1]), R(candles[i][2]),
                                         R(candles[i][3]), R(1))]),
                 period |-> period]

CallADX ==
  /\ fn = None
  /\ fn' = "calculateADX"
  /\ ret' = calculateADX(args.klines, args.period)
  /\ UNCHANGED args

NextADX == CallADX

SpecADX == InitADX /\ [][NextADX]_vars

\* C29: on at least 2 * period well-formed candles, plusDI and minusDI are
\* not negative, their sum is at most 100, adx lies in [0, 100], and at no
\* bar are +DM and -DM both non-zero.
C29_ADXRanges ==
  fn = "calculateADX" =>
    /\ Ge(ret.plusDI, R(0))
    /\ Ge(ret.minusDI, R(0))
    /\ Le(Add(ret.plusDI, ret.minusDI), R(100))
    /\ Ge(ret.adx, R(0))
    /\ Le(ret.adx, R(100))
    /\ \A i \in DOMAIN plusDMsOf(args.klines) :
         plusDMsOf(args.klines)[i] = R(0) \/ minusDMsOf(args.klines)[i] = R(0)

\* C29 witness: a series of 2 * period candles with an outside
\* bar (the high rises and the low falls), both directional indicators
\* positive, and an adx strictly inside the range.
C29_Witness ==
  /\ fn = "calculateADX"
  /\ args.period = 2
  /\ Len(args.klines) = 4
  /\ \E i \in 1..3 :
       /\ Gt(args.klines[i + 1].high, args.klines[i].high)
       /\ Lt(args.klines[i + 1].low, args.klines[i].low)
  /\ Gt(ret.plusDI, R(0))
  /\ Gt(ret.minusDI, R(0))
  /\ Gt(ret.adx, R(0))
  /\ Lt(ret.adx, R(100))

----------------------------------------------------------------------------
(* analyzeMarketWeeklyPattern over one symbol *)

\* The market pattern was computed over the pattern of one symbol alone.
SingleSymbolMarket ==
  /\ fn = "analyzeMarketWeeklyPattern"
  /\ Len(args.symbolPatterns) = 1
  /\ args.symbolPatterns[1] # Null
  /\ ret # Null

\* C30: the market pattern over one symbol has, for every weekday, that
\* symbol's positiveCount, negativeCount, totalCount and winRate.
C30_SingleSymbolIdentity ==
  SingleSymbolMarket =>
    \A i \in DOMAIN DayKeys :
      LET own == args.symbolPatterns[1][1][DayKeys[i]]
          market == ret[1][DayKeys[i]]
      IN /\ market.positiveCount = own.positiveCount
         /\ market.negativeCount = own.negativeCount
         /\ market.totalCount = own.totalCount
         /\ market.winRate = own.winRate

\* A symbol with one fall and two unchanged closes on a weekday: its own
\* totalCount is 3 and its winRate 1/3, the market's are 1 and 1.
C30_FailingInput ==
  /\ SingleSymbolMarket
  /\ \E i \in DOMAIN DayKeys :
       LET own == args.symbolPatterns[1][1][DayKeys[i]]
           market == ret[1][DayKeys[i]]
       IN /\ own.negativeCount = 1 /\ own.positiveCount = 0 /\ own.totalCount = 3
          /\ own.winRate = Frac(1, 3)
          /\ market.negativeCount = 1 /\ market.totalCount = 1
          /\ market.winRate = R(1)

====
